---- MODULE Spec2Model ----
(***************************************************************************)
(* A model of the crawl orchestration engine of PyChat: the URL frontier   *)
(* (crawler/models.py, SmartQueue), the dedup store (db_utils.py,          *)
(* DedupDatabase), the crawl state and its checkpoint form                 *)
(* (crawler/models.py, CrawlState), the per-domain worker                  *)
(* (crawler/domain_worker.py) and the scheduler (crawler/orchestrator.py). *)
(*                                                                         *)
(* The specifications share the variables:                                 *)
(*   SpecQ  one frontier under add / pop / from_list;                      *)
(*   SpecD  one dedup database file used by several DedupDatabase          *)
(*          instances (every DomainWorker constructs its own);             *)
(*   Spec   the scheduler and the domain workers over one CrawlState;      *)
(*   SpecLive  Spec with the scheduler and every worker running on;        *)
(*   SpecP  the crawl with the periodic checkpoints of its monitor;        *)
(*   SpecS  StateManager.save_checkpoint, write by write;                  *)
(*   SpecO  CrawlOrchestrator.__init__ over source lists;                  *)
(*   SpecR  RobotsHandler: load_robots, can_fetch and the robots cache;    *)
(*   SpecM  RobotsHandler.fetch_sitemaps over webs of sitemaps.            *)
(* A specification leaves the variables of the others untouched.           *)
(*                                                                         *)
(* The program runs on one asyncio event loop: code between two awaits     *)
(* that really suspend runs without interleaving, so one action is the     *)
(* code from one suspension point to the next.                             *)
(***************************************************************************)
EXTENDS Integers, Sequences, FiniteSets, TLC

VARIABLES
    \* ---- SpecQ: one SmartQueue
    fq,                \* the SmartQueue under test
    addOrder,          \* history: the queued URLs in the order add accepted them
    lastOp,            \* history: the last operation, its result, the queue before
    \* ---- SpecD: the dedup store
    fingerprints,      \* table fingerprints (PRIMARY KEY fingerprint)
    simhashes,         \* table simhashes (PRIMARY KEY simhash)
    titles,            \* table titles: title_hash -> count
    seen_titles,       \* per DedupDatabase instance: its in-memory Counter
    passed,            \* history: the pages for which check_duplicate returned False
    lastCheck,         \* history: the last check_duplicate call
    corpus_pages,      \* history: the pages ContentProcessor.process accepted
    \* ---- Spec: the crawl
    sources,           \* orchestrator.sources after merging: domain -> CrawlSource
    visited,           \* CrawlState.visited
    queues,            \* CrawlState.queues: domain -> SmartQueue (partial)
    domain_counts,     \* CrawlState.domain_counts (Counter: partial, default 0)
    domain_stats,      \* CrawlState.domain_stats (partial)
    statistics,        \* CrawlState.statistics
    active_workers,    \* orchestrator.active_workers
    finished_domains,  \* orchestrator.finished_domains
    stop_event,        \* orchestrator.stop_event
    no_work_cycles,    \* local of CrawlOrchestrator.start
    sched,             \* where CrawlOrchestrator.start is
    worker,            \* domain -> the state of its worker task
    checkpoint_file,   \* the checkpoint file: None, or the JSON object written
    max_pages,         \* orchestrator.max_pages
    crawled_file,      \* settings.crawled_file, the corpus append log: the URLs of its lines
    run,               \* the run: the source list, the checkpoint found, --max-pages
    fetchLog,          \* history: URL -> number of times it was handed to the fetcher
    refetched,         \* history: URLs handed to the fetcher while already visited
    startCounts,       \* history: domain_counts when the run started
    errored,           \* history: the domains whose worker caught an exception of its loop
    lostAtReturn,      \* history: pages in the buffer of a worker when process_domain returned
    lostAtCancel,      \* history: pages in the buffer of a worker when its task was cancelled
    idleTicks,         \* history: the latest scheduler ticks in a row that found no worker active and no domain to start
    polite,            \* history: worker tasks per domain, domains whose latest fetch no delay has followed yet,
                       \*          domains fetched once more before that delay
    \* ---- SpecS: one StateManager writing checkpoints
    files,             \* the checkpoint file and the .tmp file beside it
    saving,            \* where save_checkpoint is, what it writes, the file before
    \* ---- SpecO: the construction of a CrawlOrchestrator
    srcList,           \* the argument sources
    given,             \* the argument initial_state: None or Some of a CrawlState
    built,             \* None, or Some of the orchestrator constructed
    \* ---- SpecR: RobotsHandler and its cache file, for one domain
    robotsTxt,         \* what the server answers for /robots.txt
    parsers,           \* self.parsers.get(domain): None or Some of a parser
    cache,             \* self.cache.get(domain): None or Some of an entry
    cacheFile,         \* the entry of the domain in data/robots_cache.json
    clock,             \* datetime.now(), in hours
    handlers,          \* number of RobotsHandler objects constructed so far
    origin,            \* "none", "fetched" or "cache": where the parser came from
    freshPolicy,       \* None, or Some of the parser whose parse wrote the entry
    asked,             \* None, or Some of the last can_fetch call and its answer
    \* ---- SpecM: RobotsHandler.fetch_sitemaps, for one domain
    smWeb,             \* the sitemap documents of the server, by sitemap
    smDeclared,        \* parser.sitemaps: the sitemaps robots.txt declares
    smLoaded,          \* domain in self.parsers
    smCache,           \* the "sitemaps" of the cache entry, and whether in TTL
    smReturned         \* None, or Some of the last list returned and its path

qvars == <<fq, addOrder, lastOp>>
dvars == <<fingerprints, simhashes, titles, seen_titles, passed, lastCheck,
           corpus_pages>>
cvars == <<sources, visited, queues, domain_counts, domain_stats, statistics,
           active_workers, finished_domains, stop_event, no_work_cycles, sched,
           worker, checkpoint_file, max_pages, crawled_file, run, fetchLog,
           refetched, startCounts, errored, lostAtReturn, lostAtCancel,
           idleTicks, polite>>
svars == <<files, saving>>
ovars == <<srcList, given, built>>
rvars == <<robotsTxt, parsers, cache, cacheFile, clock, handlers, origin,
           freshPolicy, asked>>
mvars == <<smWeb, smDeclared, smLoaded, smCache, smReturned>>
vars == <<qvars, dvars, cvars, svars, ovars, rvars, mvars>>

\* an optional value is a sequence: <<>> for None, <<v>> for the value v
None == <<>>

Some(v) == <<v>>

Min(S) == CHOOSE x \in S : \A y \in S : x <= y

Max(S) == CHOOSE x \in S : \A y \in S : x >= y

Range(s) == {s[i] : i \in 1..Len(s)}

RECURSIVE SeqSum(_)
SeqSum(s) == IF s = <<>> THEN 0 ELSE Head(s) + SeqSum(Tail(s))

(***************************************************************************)
(* URLs.  A URL is a number; UrlKeywords gives the keywords of             *)
(* SmartQueue.add that occur in the lower-cased URL text:                  *)
(*   1  https://a.org/tutorial/b          2  https://a.org/docs/a          *)
(*   3  https://a.org/x                   4  https://b.org/API/Guide       *)
(*   5  https://a.org/reference           6, 7, ...  https://c.org/p<n>    *)
(*   0  http://[a.org/x   (urlparse raises ValueError: Invalid IPv6 URL)   *)
(***************************************************************************)
NumBulkUrls == 101

SmallUrls == {1, 2, 3, 4, 5}

BulkUrls == 6..(5 + NumBulkUrls)

\* the URLs urlparse refuses
MalformedUrls == {0}

Urls == SmallUrls \cup BulkUrls \cup MalformedUrls

UrlKeywords(u) ==
    CASE u = 1 -> {"tutorial"}
      [] u = 2 -> {"docs"}
      [] u = 4 -> {"api", "guide"}
      [] u = 5 -> {"reference"}
      [] OTHER -> {}

HighKeywords == {"tutorial", "guide", "example", "getting-started", "howto"}

MediumKeywords == {"docs", "documentation", "reference", "api"}

(***************************************************************************)
(* SmartQueue                                                              *)
(***************************************************************************)
EmptyQueue ==
    [high_priority |-> <<>>, medium_priority |-> <<>>, low_priority |-> <<>>,
     all_urls |-> {}]

\* the lane add() appends to: the if / elif / else of SmartQueue.add
Classify(u) ==
    IF UrlKeywords(u) \cap HighKeywords # {} THEN "high"
    ELSE IF UrlKeywords(u) \cap MediumKeywords # {} THEN "medium"
    ELSE "low"

\* a plausible slip: no membership test, every add appends
QAddNoMembership(q, u) ==
    LET q1 == [q EXCEPT !.all_urls = @ \cup {u}]
    IN  [ret |-> TRUE,
         q   |-> CASE Classify(u) = "high" ->
                        [q1 EXCEPT !.high_priority = Append(@, u)]
                   [] Classify(u) = "medium" ->
                        [q1 EXCEPT !.medium_priority = Append(@, u)]
                   [] OTHER ->
                        [q1 EXCEPT !.low_priority = Append(@, u)]]

\* SmartQueue.add: the returned bool and the queue afterwards
QAdd(q, u) ==
    IF u \in q.all_urls
    THEN [ret |-> FALSE, q |-> q]
    ELSE LET q1 == [q EXCEPT !.all_urls = @ \cup {u}]
         IN  [ret |-> TRUE,
              q   |-> CASE Classify(u) = "high" ->
                             [q1 EXCEPT !.high_priority = Append(@, u)]
                        [] Classify(u) = "medium" ->
                             [q1 EXCEPT !.medium_priority = Append(@, u)]
                        [] OTHER ->
                             [q1 EXCEPT !.low_priority = Append(@, u)]]

\* a plausible slip: pop leaves the URL in all_urls
QPopKeepsMembership(q) ==
    IF q.high_priority # <<>>
    THEN [ok |-> TRUE, url |-> Head(q.high_priority),
          q  |-> [q EXCEPT !.high_priority = Tail(@)]]
    ELSE IF q.medium_priority # <<>>
    THEN [ok |-> TRUE, url |-> Head(q.medium_priority),
          q  |-> [q EXCEPT !.medium_priority = Tail(@)]]
    ELSE IF q.low_priority # <<>>
    THEN [ok |-> TRUE, url |-> Head(q.low_priority),
          q  |-> [q EXCEPT !.low_priority = Tail(@)]]
    ELSE [ok |-> FALSE, url |-> 0, q |-> q]

\* a plausible slip: the medium lane is drained before the high lane
QPopMediumFirst(q) ==
    IF q.medium_priority # <<>>
    THEN [ok |-> TRUE, url |-> Head(q.medium_priority),
          q  |-> [q EXCEPT !.medium_priority = Tail(@),
                           !.all_urls = @ \ {Head(q.medium_priority)}]]
    ELSE IF q.high_priority # <<>>
    THEN [ok |-> TRUE, url |-> Head(q.high_priority),
          q  |-> [q EXCEPT !.high_priority = Tail(@),
                           !.all_urls = @ \ {Head(q.high_priority)}]]
    ELSE IF q.low_priority # <<>>
    THEN [ok |-> TRUE, url |-> Head(q.low_priority),
          q  |-> [q EXCEPT !.low_priority = Tail(@),
                           !.all_urls = @ \ {Head(q.low_priority)}]]
    ELSE [ok |-> FALSE, url |-> 0, q |-> q]

\* SmartQueue.pop: ok = FALSE stands for the IndexError
QPop(q) ==
    IF q.high_priority # <<>>
    THEN [ok |-> TRUE, url |-> Head(q.high_priority),
          q  |-> [q EXCEPT !.high_priority = Tail(@),
                           !.all_urls = @ \ {Head(q.high_priority)}]]
    ELSE IF q.medium_priority # <<>>
    THEN [ok |-> TRUE, url |-> Head(q.medium_priority),
          q  |-> [q EXCEPT !.medium_priority = Tail(@),
                           !.all_urls = @ \ {Head(q.medium_priority)}]]
    ELSE IF q.low_priority # <<>>
    THEN [ok |-> TRUE, url |-> Head(q.low_priority),
          q  |-> [q EXCEPT !.low_priority = Tail(@),
                           !.all_urls = @ \ {Head(q.low_priority)}]]
    ELSE [ok |-> FALSE, url |-> 0, q |-> q]

\* SmartQueue.__len__
QLen(q) == Len(q.high_priority) + Len(q.medium_priority) + Len(q.low_priority)

\* a plausible slip: the low lane is left out of the flattened list
QToListNoLow(q) == q.high_priority \o q.medium_priority

\* SmartQueue.to_list
QToList(q) == q.high_priority \o q.medium_priority \o q.low_priority

\* SmartQueue.from_list
\* the loop "for url in urls: queue.add(url)" on q; the list is walked left to
\* right, as the first half and then the second, to keep the evaluation
\* shallow (a queue has fields: DOMAIN q = {} is never true, the test makes q be
\* evaluated before the list is walked)
RECURSIVE QFromListInto(_, _)
QFromListInto(q, urls) ==
    IF urls = <<>> \/ DOMAIN q = {} THEN q
    ELSE IF Len(urls) = 1 THEN QAdd(q, urls[1]).q
    ELSE LET h == Len(urls) \div 2
         IN  QFromListInto(QFromListInto(q, SubSeq(urls, 1, h)),
                           SubSeq(urls, h + 1, Len(urls)))

QFromList(urls) == QFromListInto(EmptyQueue, urls)

(***************************************************************************)
(* SpecQ: one frontier, any interleaving of add, pop and from_list         *)
(***************************************************************************)
QUrls == SmallUrls \cup {6}

LaneRank(l) == CASE l = "high" -> 1 [] l = "medium" -> 2 [] OTHER -> 3

\* the URLs held in the lanes of q
Queued(q) ==
    Range(q.high_priority) \cup Range(q.medium_priority) \cup Range(q.low_priority)

\* From the add history alone: the earliest-added URL among those of the
\* highest lane that has a URL.
EarliestOfHighestLane(order) ==
    LET best == Min({LaneRank(Classify(order[i])) : i \in 1..Len(order)})
        idx  == Min({i \in 1..Len(order) : LaneRank(Classify(order[i])) = best})
    IN  order[idx]

NoOp == [op |-> "none", url |-> 0, ret |-> FALSE, before |-> EmptyQueue,
         expected |-> 0, prev |-> 0, urls |-> <<>>]

QInit ==
    /\ fq = EmptyQueue
    /\ addOrder = <<>>
    /\ lastOp = NoOp

\* the URL the operation before this one popped, 0 if it was not a pop
JustPopped == IF lastOp.op = "pop" /\ lastOp.ret THEN lastOp.url ELSE 0

QAddOp(u) ==
    LET r == QAdd(fq, u)
    IN  /\ fq' = r.q
        /\ addOrder' = IF r.ret THEN Append(addOrder, u) ELSE addOrder
        /\ lastOp' = [op |-> "add", url |-> u, ret |-> r.ret, before |-> fq,
                      expected |-> 0, prev |-> JustPopped, urls |-> <<>>]

QPopOp ==
    LET r == QPop(fq)
    IN  /\ fq' = r.q
        /\ addOrder' = IF r.ok THEN SelectSeq(addOrder, LAMBDA x : x # r.url)
                       ELSE addOrder
        /\ lastOp' = [op |-> "pop", url |-> r.url, ret |-> r.ok, before |-> fq,
                      expected |-> IF addOrder = <<>> THEN 0
                                   ELSE EarliestOfHighestLane(addOrder),
                      prev |-> JustPopped, urls |-> <<>>]

\* the longest list given to from_list
MaxListLen == 3

\* the URLs the lists name: one of each lane
ListUrls == {1, 2, 3}

QLists == UNION {[1..n -> ListUrls] : n \in 0..MaxListLen}

\* the first occurrences of the URLs of a list, in its order
FirstOccurrences(urls) ==
    LET firsts == SelectSeq([i \in 1..Len(urls) |-> i],
                            LAMBDA i : \A j \in 1..(i - 1) : urls[j] # urls[i])
    IN  [k \in 1..Len(firsts) |-> urls[firsts[k]]]

\* The frontier is replaced by SmartQueue.from_list(urls), as CrawlState.from_dict
\* does with each list of a checkpoint; from_list fills a queue of its own,
\* which is empty before.
QFromListOp(urls) ==
    /\ fq' = QFromList(urls)
    /\ addOrder' = FirstOccurrences(urls)
    /\ lastOp' = [op |-> "from_list", url |-> 0, ret |-> TRUE,
                  before |-> EmptyQueue, expected |-> 0, prev |-> 0,
                  urls |-> urls]
(***************************************************************************)
(* DedupDatabase.  A page is what check_duplicate computes from its text   *)
(* and title: the fingerprint, the simhash and the title.  A 64-bit        *)
(* simhash is written as the set of the positions of its one bits          *)
(* (position 0 is the lowest bit).                                         *)
(*   pages 1..6  title "A", six different texts, simhashes 8 bits apart    *)
(*   page  7     title "A", the fingerprint of page 1, a distant simhash   *)
(*   page  8     title "B", its own fingerprint, a simhash 3 bits from     *)
(*               that of page 1                                            *)
(***************************************************************************)
duplicate_title_threshold == 5

simhash_hamming_distance == 3

NumInstances == 2

Instances == 1..NumInstances

Pages == 1..8

PageFingerprint(p) == IF p = 7 THEN 1 ELSE p

PageSimhash(p) ==
    CASE p \in 1..6 -> {4 * p, 4 * p + 1, 4 * p + 2, 4 * p + 3}
      [] p = 7      -> {56, 57, 58, 59}
      [] OTHER      -> {0, 1, 4, 5, 6, 7, 63}

PageTitle(p) == IF p \in 1..7 THEN "A" ELSE "B"

\* settings.quality_threshold, the default of a source
quality_threshold == 45

\* PageQuality.score of the page, as calculate_quality computes it from the
\* text: page 2 is a page of low quality
PageScore(p) == IF p = 2 THEN 30 ELSE 60

\* ContentProcessor.process after calculate_quality: rejected as duplicate,
\* else rejected for quality, else accepted
Accepted(is_duplicate, p) ==
    IF is_duplicate THEN FALSE
    ELSE IF PageScore(p) < quality_threshold THEN FALSE
    ELSE TRUE

\* str(hash(title)): the key of the title counters
TitleHash(t) == IF t = "A" THEN 11 ELSE 22

TitleHashes == {11, 22}

\* a ^ b, and x & ((1 << 64) - 1), on sets of bit positions
BitXor(a, b) == (a \ b) \cup (b \ a)

Mask64(x) == x \cap (0..63)

\* the loop of _hamming_distance: x &= x - 1 clears the lowest one bit
RECURSIVE ClearLowestLoop(_, _)
ClearLowestLoop(x, dist) ==
    IF x = {} THEN dist ELSE ClearLowestLoop(x \ {Min(x)}, dist + 1)

\* DedupDatabase._hamming_distance
HammingDistance(a, b) == ClearLowestLoop(Mask64(BitXor(a, b)), 0)

\* a plausible slip: dist < settings.simhash_hamming_distance
SimhashScanStrict(sh, stored) ==
    \E existing \in stored : HammingDistance(sh, existing) < simhash_hamming_distance

\* the scan of check_duplicate over the rows of simhashes
SimhashScan(sh, stored) ==
    \E existing \in stored : HammingDistance(sh, existing) <= simhash_hamming_distance

\* a plausible slip: the fingerprints are neither looked up nor kept unique
\* (no SELECT, INSERT OR REPLACE)
CheckDuplicateNoFingerprint(db, seen, p) ==
    LET fingerprint == PageFingerprint(p)
        simhash_val == PageSimhash(p)
        title_hash  == TitleHash(PageTitle(p))
        same        == [ret |-> TRUE, db |-> db, seen |-> seen]
    IN  IF seen[title_hash] >= duplicate_title_threshold THEN same
        ELSE IF SimhashScan(simhash_val, db.simhashes) THEN same
        ELSE LET seen1 == [seen EXCEPT ![title_hash] = @ + 1]
             IN  [ret  |-> FALSE,
                  db   |-> [fingerprints |-> db.fingerprints \cup {fingerprint},
                            simhashes    |-> db.simhashes \cup {simhash_val},
                            titles       |-> [db.titles EXCEPT
                                                ![title_hash] = seen1[title_hash]]],
                  seen |-> seen1]

\* DedupDatabase.check_duplicate on the database db by an instance whose
\* counter is seen: the returned bool, the database and the counter afterwards.
\* The connection commits when the with block is left, also after the caught
\* IntegrityError.
CheckDuplicate(db, seen, p) ==
    LET fingerprint == PageFingerprint(p)
        simhash_val == PageSimhash(p)
        title_hash  == TitleHash(PageTitle(p))
        same        == [ret |-> TRUE, db |-> db, seen |-> seen]
    IN  IF seen[title_hash] >= duplicate_title_threshold THEN same
        ELSE IF fingerprint \in db.fingerprints THEN same
        ELSE IF SimhashScan(simhash_val, db.simhashes) THEN same
        ELSE IF fingerprint \in db.fingerprints          \* IntegrityError
             THEN same
        ELSE IF simhash_val \in db.simhashes             \* IntegrityError
             THEN [ret |-> TRUE,
                   db  |-> [db EXCEPT !.fingerprints = @ \cup {fingerprint}],
                   seen |-> seen]
        ELSE LET seen1 == [seen EXCEPT ![title_hash] = @ + 1]
             IN  [ret  |-> FALSE,
                  db   |-> [fingerprints |-> db.fingerprints \cup {fingerprint},
                            simhashes    |-> db.simhashes \cup {simhash_val},
                            titles       |-> [db.titles EXCEPT
                                                ![title_hash] = seen1[title_hash]]],
                  seen |-> seen1]

(***************************************************************************)
(* SpecD: DedupDatabase instances on one database file                     *)
(***************************************************************************)
\* what the specification says of a distance: the number of differing bits
DiffBits(a, b) == Cardinality({i \in (a \cup b) \cap (0..63) : (i \in a) # (i \in b)})

\* how often check_duplicate has returned False for a page with title t
TitlePasses(t) ==
    SeqSum([i \in 1..Cardinality(Pages) |->
              IF PageTitle(i) = t THEN passed[i] ELSE 0])

\* how often check_duplicate has returned False for a page with fingerprint f
FingerprintPasses(f) ==
    SeqSum([i \in 1..Cardinality(Pages) |->
              IF PageFingerprint(i) = f THEN passed[i] ELSE 0])

Db == [fingerprints |-> fingerprints, simhashes |-> simhashes, titles |-> titles]

NoCheck == [inst |-> 0, ret |-> FALSE, known |-> FALSE, near |-> FALSE,
            inserted |-> FALSE]

DInit ==
    /\ fingerprints = {}
    /\ simhashes = {}
    /\ titles = [h \in TitleHashes |-> 0]
    /\ seen_titles = [w \in Instances |-> None]
    /\ passed = [p \in Pages |-> 0]
    /\ lastCheck = NoCheck
    /\ corpus_pages = {}

\* DedupDatabase.__init__, in DomainWorker.__init__: the counter is loaded
\* from the titles table once, when the worker is constructed
NewDedupDatabase(w) ==
    /\ seen_titles[w] = None
    /\ seen_titles' = [seen_titles EXCEPT ![w] = Some(titles)]
    /\ UNCHANGED <<fingerprints, simhashes, titles, passed, lastCheck, corpus_pages>>

\* one call of check_duplicate by instance w; it contains no await.  The
\* caller is ContentProcessor.process by way of calculate_quality, which then
\* accepts the page or rejects it as duplicate or for its quality.
CheckDuplicateCall(w, p) ==
    /\ seen_titles[w] # None
    /\ \E r \in {CheckDuplicate(Db, seen_titles[w][1], p)} :
           /\ fingerprints' = r.db.fingerprints
           /\ simhashes' = r.db.simhashes
           /\ titles' = r.db.titles
           /\ seen_titles' = [seen_titles EXCEPT ![w] = Some(r.seen)]
           /\ passed' = IF r.ret THEN passed ELSE [passed EXCEPT ![p] = @ + 1]
           /\ lastCheck' =
                [inst |-> w, ret |-> r.ret,
                 known |-> PageFingerprint(p) \in fingerprints,
                 near |-> \E s \in simhashes :
                             DiffBits(PageSimhash(p), s) <= simhash_hamming_distance,
                 inserted |-> r.db # Db]
           /\ corpus_pages' = IF Accepted(r.ret, p) THEN corpus_pages \cup {p}
                               ELSE corpus_pages
(***************************************************************************)
(* CrawlState and its checkpoint form                                      *)
(***************************************************************************)
Domains == {1, 2, 3}           \* 1 a.org   2 b.org   3 c.org

StatNames == {"pages_accepted", "pages_rejected_quality", "pages_rejected_duplicate",
              "pages_rejected_lang", "pages_rejected_empty", "pages_rejected_short",
              "pages_failed", "fetch_crawl4ai"}

\* CrawlState.__init__
NewCrawlState ==
    [visited |-> {}, queues |-> <<>>, domain_counts |-> <<>>, domain_stats |-> <<>>,
     statistics |-> [n \in StatNames |-> 0]]

\* avg_latency is kept as the pair <<total, count>> of its quotient
NewDomainStats(seed_prefix) ==
    [seed_prefix |-> seed_prefix, avg_latency |-> <<1, 1>>, request_count |-> 0,
     total_latency |-> 0]

\* CrawlState.add_seed_url
AddSeedUrl(st, d, u, seed_prefix) ==
    LET st1 == IF d \in DOMAIN st.queues THEN st
               ELSE [st EXCEPT !.queues = @ @@ (d :> EmptyQueue),
                               !.domain_stats = @ @@ (d :> NewDomainStats(seed_prefix))]
    IN  [st1 EXCEPT !.queues[d] = QAdd(@, u).q]

\* the CrawlState the variables hold
State ==
    [visited |-> visited, queues |-> queues, domain_counts |-> domain_counts,
     domain_stats |-> domain_stats, statistics |-> statistics]

\* list(a_set): the elements in some order, here the ascending one
RECURSIVE ListBetween(_, _, _)
ListBetween(S, lo, hi) ==
    IF S = {} THEN <<>>
    ELSE IF lo = hi THEN <<lo>>
    ELSE LET mid == (lo + hi) \div 2
         IN  ListBetween({x \in S : x <= mid}, lo, mid)
               \o ListBetween({x \in S : x > mid}, mid + 1, hi)

SetToList(S) == IF S = {} THEN <<>> ELSE ListBetween(S, Min(S), Max(S))

\* CrawlState.to_dict
ToDict(st) ==
    [visited       |-> SetToList(st.visited),
     queues        |-> [d \in DOMAIN st.queues |-> QToList(st.queues[d])],
     domain_counts |-> st.domain_counts,
     domain_stats  |-> st.domain_stats,
     statistics    |-> st.statistics]

\* CrawlState.from_dict
FromDict(data) ==
    [visited       |-> Range(data.visited),
     queues        |-> [d \in DOMAIN data.queues |-> QFromList(data.queues[d])],
     domain_counts |-> data.domain_counts,
     domain_stats  |-> data.domain_stats,
     statistics    |-> data.statistics]

\* StateManager.save_checkpoint: the object written to the file
SaveCheckpoint(st) == ToDict(st) @@ [timestamp |-> 1]

\* StateManager.load_checkpoint
LoadCheckpoint(file) == IF file = None THEN None ELSE Some(FromDict(file[1]))

\* CrawlState.get_domain_count
GetDomainCount(d) == IF d \in DOMAIN domain_counts THEN domain_counts[d] ELSE 0

\* a plausible slip: the counter is kept under one key for all domains
IncrementDomainCountOfFirst(dc, d) ==
    IF 1 \in DOMAIN dc THEN [dc EXCEPT ![1] = @ + 1] ELSE dc @@ (1 :> 1)

\* a plausible slip: = 1 in place of += 1
IncrementDomainCountOnce(dc, d) ==
    IF d \in DOMAIN dc THEN [dc EXCEPT ![d] = 1] ELSE dc @@ (d :> 1)

\* CrawlState.increment_domain_count
IncrementDomainCount(dc, d) ==
    IF d \in DOMAIN dc THEN [dc EXCEPT ![d] = @ + 1] ELSE dc @@ (d :> 1)

\* CrawlState.has_pending_urls
HasPendingUrls(d) == d \in DOMAIN queues /\ QLen(queues[d]) > 0

\* CrawlState.get_queue_size
GetQueueSize(d) == IF d \in DOMAIN queues THEN QLen(queues[d]) ELSE 0

\* CrawlState.increment_stat
IncrementStat(st, n) == IF n \in DOMAIN st THEN [st EXCEPT ![n] = @ + 1] ELSE st

\* the latency measured for a fetch of u, in whole units
Latency(u) == (u % 2) + 1

\* CrawlState.update_latency
UpdateLatency(ds, d, latency) ==
    [ds EXCEPT ![d] = [seed_prefix   |-> @.seed_prefix,
                       request_count |-> @.request_count + 1,
                       total_latency |-> @.total_latency + latency,
                       avg_latency   |-> <<@.total_latency + latency,
                                           @.request_count + 1>>]]
(***************************************************************************)
(* StateManager.save_checkpoint, step by step.  A file is None (absent) or *)
(* Some of the chunks written to it; json.dump writes the object key by    *)
(* key.                                                                    *)
(***************************************************************************)
CheckpointKeys == <<"visited", "queues", "domain_counts", "domain_stats",
                    "statistics", "timestamp">>

\* json.dump(data, f): the chunks written, in order
JsonDump(data) == [i \in 1..Len(CheckpointKeys) |->
                      <<CheckpointKeys[i], data[CheckpointKeys[i]]>>]

\* open(tmp_file, 'w'): the file is created, or truncated
OpenTmp(fs) == [fs EXCEPT !.tmp = Some(<<>>)]

\* a plausible slip: the checkpoint file itself is written
WriteChunkInPlace(fs, chunk) ==
    [fs EXCEPT !.ckpt = Some(IF @ = None THEN <<chunk>> ELSE Append(@[1], chunk))]

\* one write of json.dump to the open temporary file
WriteChunk(fs, chunk) == [fs EXCEPT !.tmp = Some(Append(@[1], chunk))]

\* tmp_file.replace(self.checkpoint_file): one rename
ReplaceTmp(fs) == [ckpt |-> fs.tmp, tmp |-> None]

\* the except branch: the temporary file is unlinked if it exists
OnSaveError(fs) == IF fs.tmp # None THEN [fs EXCEPT !.tmp = None] ELSE fs

NotSaving == [pc |-> "idle", chunks |-> <<>>, before |-> None]

\* save_checkpoint(state) is called: to_dict and the timestamp
StartSave(st) ==
    /\ saving.pc \in {"idle", "done", "failed"}
    /\ saving' = [pc |-> "open", chunks |-> JsonDump(SaveCheckpoint(st)),
                  before |-> files.ckpt]
    /\ UNCHANGED files

OpenStep ==
    /\ saving.pc = "open"
    /\ files' = OpenTmp(files)
    /\ saving' = [saving EXCEPT !.pc = "write"]

WriteStep ==
    /\ saving.pc = "write"
    /\ Len(files.tmp[1]) < Len(saving.chunks)
    /\ files' = WriteChunk(files, saving.chunks[Len(files.tmp[1]) + 1])
    /\ UNCHANGED saving

\* the with block is left and the file closed, then the rename
ReplaceStep ==
    /\ saving.pc = "write"
    /\ Len(files.tmp[1]) = Len(saving.chunks)
    /\ files' = ReplaceTmp(files)
    /\ saving' = [saving EXCEPT !.pc = "done"]

\* open, a write or the rename raises: the except branch runs
SaveError ==
    /\ saving.pc \in {"open", "write"}
    /\ files' = OnSaveError(files)
    /\ saving' = [saving EXCEPT !.pc = "failed"]

\* the process is killed inside save_checkpoint: the files stay as they are
SaveCrash ==
    /\ saving.pc \in {"open", "write"}
    /\ saving' = [saving EXCEPT !.pc = "crashed"]
    /\ UNCHANGED files

\* no save under way, no file
SIdle == files = [ckpt |-> None, tmp |-> None] /\ saving = NotSaving

(***************************************************************************)
(* CrawlOrchestrator.__init__                                              *)
(***************************************************************************)
\* a CrawlSource as ConfigLoader builds it; the seed prefix of a domain is
\* written as the domain
CrawlSource(d, u, mp, pr, qt) ==
    [domain |-> d, url |-> u, seed_prefix |-> d, max_pages |-> mp, priority |-> pr,
     quality_threshold |-> qt]

\* a plausible slip: a later source of a known domain only adds its seed
RECURSIVE MergeSourcesKeepFirst(_, _)
MergeSourcesKeepFirst(acc, list) ==
    IF list = <<>> THEN acc
    ELSE LET src == Head(list)
             d   == src.domain
         IN  IF d \notin DOMAIN acc.sources
             THEN MergeSourcesKeepFirst(
                    [sources      |-> acc.sources @@ (d :> src),
                     domain_seeds |-> acc.domain_seeds @@ (d :> <<src.url>>)],
                    Tail(list))
             ELSE MergeSourcesKeepFirst(
                    [sources      |-> acc.sources,
                     domain_seeds |-> [acc.domain_seeds EXCEPT
                                         ![d] = Append(@, src.url)]],
                    Tail(list))

\* the loop over sources in __init__: [sources, domain_seeds] after the list
RECURSIVE MergeSources(_, _)
MergeSources(acc, list) ==
    IF list = <<>> THEN acc
    ELSE LET src == Head(list)
             d   == src.domain
         IN  IF d \notin DOMAIN acc.sources
             THEN MergeSources(
                    [sources      |-> acc.sources @@ (d :> src),
                     domain_seeds |-> acc.domain_seeds @@ (d :> <<src.url>>)],
                    Tail(list))
             ELSE MergeSources(
                    [sources      |-> [acc.sources EXCEPT
                                         ![d].max_pages = @ + src.max_pages,
                                         ![d].priority =
                                            IF src.priority < @ THEN src.priority ELSE @,
                                         ![d].quality_threshold =
                                            IF src.quality_threshold < @
                                            THEN src.quality_threshold ELSE @],
                     domain_seeds |-> [acc.domain_seeds EXCEPT
                                         ![d] = Append(@, src.url)]],
                    Tail(list))

Merged(list) == MergeSources([sources |-> <<>>, domain_seeds |-> <<>>], list)

\* the seeding of a fresh CrawlState in __init__
RECURSIVE SeedDomain(_, _, _, _)
SeedDomain(st, d, seeds, seed_prefix) ==
    IF seeds = <<>> THEN st
    ELSE SeedDomain(AddSeedUrl(st, d, Head(seeds), seed_prefix), d, Tail(seeds),
                    seed_prefix)

RECURSIVE SeedAll(_, _, _)
SeedAll(st, m, ds) ==
    IF ds = {} THEN st
    ELSE LET d == Min(ds)
         IN  SeedAll(SeedDomain(st, d, m.domain_seeds[d], m.sources[d].seed_prefix),
                     m, ds \ {d})

\* self.max_pages after __init__: "max_pages or sum(...)" over the merged
\* sources; the option is None, or Some of the number given
RECURSIVE SumMaxPages(_, _)
SumMaxPages(srcs, ds) ==
    IF ds = {} THEN 0
    ELSE LET d == Min(ds) IN srcs[d].max_pages + SumMaxPages(srcs, ds \ {d})

OrchestratorMaxPages(list, cli_max_pages) ==
    IF cli_max_pages # None /\ cli_max_pages[1] # 0 THEN cli_max_pages[1]
    ELSE SumMaxPages(Merged(list).sources, DOMAIN Merged(list).sources)

\* self.state after __init__: the initial_state given, else a seeded fresh one
InitialState(list, initial_state) ==
    IF initial_state # None THEN initial_state[1]
    ELSE SeedAll(NewCrawlState, Merged(list), DOMAIN Merged(list).sources)
(***************************************************************************)
(* The environment of a run: settings, robots policies, fetch results      *)
(***************************************************************************)
\* settings.max_concurrent_crawls, set small so that domains compete
MaxConcurrentCrawls == 2

max_no_work_cycles == 3

max_failures == 100

\* the URLs RobotsHandler.can_fetch refuses
RobotsDisallowed == {3}

\* self.buffer_limit of a DomainWorker
buffer_limit == 50

\* What a fetch of u and the processing of its page can come to: "failed" is
\* fetch_result.success = False, "accepted" is process_result.accepted, any
\* other is the rejection_reason of ContentProcessor.process.  Every kind
\* occurs for some URL; of c.org only the first four pages load.
FetchOutcomes(u) ==
    CASE u = 1 -> {"accepted", "failed", "quality"}
      [] u = 2 -> {"accepted", "duplicate", "language"}
      [] u = 3 -> {"accepted"}
      [] u = 4 -> {"accepted", "too_short", "empty"}
      [] u = 5 -> {"accepted", "empty_strip", "failed"}
      [] u = 6 -> {"accepted", "failed", "quality"}
      [] u \in 7..9 -> {"accepted", "failed"}
      [] OTHER -> {"failed"}

\* process_result.links for the page of u: the links of the page that
\* ContentProcessor._filter_links keeps (normalised, same site, passing the
\* URL filter).  The first page of c.org links to three more pages of c.org.
Links(u) == IF u = 6 THEN {7, 8, 9} ELSE {}

\* the statistic _process_url increments for a rejection reason
RejectionStat(reason) ==
    CASE reason = "duplicate" -> "pages_rejected_duplicate"
      [] reason = "quality"   -> "pages_rejected_quality"
      [] reason = "language"  -> "pages_rejected_lang"
      [] reason = "empty"     -> "pages_rejected_empty"
      [] reason = "too_short" -> "pages_rejected_short"
      [] OTHER                -> "no such statistic"

(***************************************************************************)
(* CrawlOrchestrator: the scheduler                                        *)
(***************************************************************************)
\* the sort key (source.priority, -queue_size, domain) of a candidate
CandidateKey(d) == <<sources[d].priority, 0 - GetQueueSize(d), d>>

\* the order of Python tuples
KeyBefore(a, b) ==
    \/ a[1] < b[1]
    \/ a[1] = b[1] /\ a[2] < b[2]
    \/ a[1] = b[1] /\ a[2] = b[2] /\ a[3] < b[3]

\* a plausible slip: the slice candidates[:max_count] is left out
GetDomainsToStartNoSlice(max_count) ==
    LET idle == {d \in DOMAIN sources :
                    d \notin finished_domains /\ d \notin active_workers}
        done == {d \in idle :
                    \/ GetDomainCount(d) >= sources[d].max_pages
                    \/ ~HasPendingUrls(d) /\ d \in DOMAIN domain_stats}
        candidates == {d \in idle :
                    GetDomainCount(d) < sources[d].max_pages /\ HasPendingUrls(d)}
    IN  [finished |-> finished_domains \cup done, start |-> candidates]

\* a plausible slip: finished domains are not skipped
GetDomainsToStartFinishedToo(max_count) ==
    LET idle == {d \in DOMAIN sources : d \notin active_workers}
        done == {d \in idle :
                    \/ GetDomainCount(d) >= sources[d].max_pages
                    \/ ~HasPendingUrls(d) /\ d \in DOMAIN domain_stats}
        candidates == {d \in idle :
                    GetDomainCount(d) < sources[d].max_pages /\ HasPendingUrls(d)}
    IN  [finished |-> finished_domains \cup done,
         start    |-> {d \in candidates :
                         Cardinality({c \in candidates :
                            KeyBefore(CandidateKey(c), CandidateKey(d))}) < max_count}]

\* a plausible slip: active domains are not skipped
GetDomainsToStartActiveToo(max_count) ==
    LET idle == {d \in DOMAIN sources : d \notin finished_domains}
        done == {d \in idle :
                    \/ GetDomainCount(d) >= sources[d].max_pages
                    \/ ~HasPendingUrls(d) /\ d \in DOMAIN domain_stats}
        candidates == {d \in idle :
                    GetDomainCount(d) < sources[d].max_pages /\ HasPendingUrls(d)}
    IN  [finished |-> finished_domains \cup done,
         start    |-> {d \in candidates :
                         Cardinality({c \in candidates :
                            KeyBefore(CandidateKey(c), CandidateKey(d))}) < max_count}]

\* a plausible slip: the candidates are sorted by (priority, domain)
GetDomainsToStartByPriorityOnly(max_count) ==
    LET idle == {d \in DOMAIN sources :
                    d \notin finished_domains /\ d \notin active_workers}
        done == {d \in idle :
                    \/ GetDomainCount(d) >= sources[d].max_pages
                    \/ ~HasPendingUrls(d) /\ d \in DOMAIN domain_stats}
        candidates == {d \in idle :
                    GetDomainCount(d) < sources[d].max_pages /\ HasPendingUrls(d)}
    IN  [finished |-> finished_domains \cup done,
         start    |-> {d \in candidates :
                         Cardinality({c \in candidates :
                            KeyBefore(<<sources[c].priority, 0, c>>,
                                      <<sources[d].priority, 0, d>>)}) < max_count}]

\* CrawlOrchestrator._get_domains_to_start: finished_domains as the loop
\* leaves it, and the domains returned (the first max_count of the sorted
\* candidates)
GetDomainsToStart(max_count) ==
    LET idle == {d \in DOMAIN sources :
                    d \notin finished_domains /\ d \notin active_workers}
        done == {d \in idle :
                    \/ GetDomainCount(d) >= sources[d].max_pages
                    \/ ~HasPendingUrls(d) /\ d \in DOMAIN domain_stats}
        candidates == {d \in idle :
                    GetDomainCount(d) < sources[d].max_pages /\ HasPendingUrls(d)}
    IN  [finished |-> finished_domains \cup done,
         start    |-> {d \in candidates :
                         Cardinality({c \in candidates :
                            KeyBefore(CandidateKey(c), CandidateKey(d))}) < max_count}]

\* CrawlOrchestrator._all_work_complete, with finished_domains = fin
AllWorkComplete(fin) ==
    /\ \A d \in DOMAIN sources :
          d \notin fin /\ d \notin active_workers => ~HasPendingUrls(d)
    /\ active_workers = {}

\* a plausible slip: one idle cycle is taken for enough
EnoughIdleCyclesAtOnce(n) == n >= 1

\* no_work_cycles >= max_no_work_cycles
EnoughIdleCycles(n) == n >= max_no_work_cycles

\* a DomainWorker as constructed; last is the outcome of its latest fetch,
\* failed_fetches counts the fetches that failed since the latest accepted
\* page (history: the code keeps no such counter)
IdleWorker == [pc |-> "idle", url |-> 0, consecutive_failures |-> 0,
               pages_crawled |-> 0, page_buffer |-> <<>>, last |-> "none",
               failed_fetches |-> 0]

\* one pass of the while loop of CrawlOrchestrator.start, up to its sleep
Tick ==
    /\ sched = "loop"
    /\ ~stop_event
    /\ no_work_cycles <= max_no_work_cycles
    /\ LET available_slots == MaxConcurrentCrawls - Cardinality(active_workers)
           g == GetDomainsToStart(available_slots)
           n == no_work_cycles + 1
       IN  IF available_slots <= 0
           THEN UNCHANGED <<finished_domains, active_workers, worker, no_work_cycles,
                            stop_event, sched>>
           ELSE /\ finished_domains' = g.finished
                /\ IF g.start # {}
                   THEN /\ no_work_cycles' = 0
                        /\ active_workers' = active_workers \cup g.start
                        /\ worker' = [d \in Domains |->
                                        IF d \in g.start
                                        THEN [IdleWorker EXCEPT !.pc = "created"]
                                        ELSE worker[d]]
                        /\ UNCHANGED <<stop_event, sched>>
                   ELSE IF active_workers = {}
                   THEN /\ no_work_cycles' = n
                        /\ IF EnoughIdleCycles(n) /\ AllWorkComplete(g.finished)
                           THEN stop_event' = TRUE /\ sched' = "gather"
                           ELSE UNCHANGED <<stop_event, sched>>
                        /\ UNCHANGED <<active_workers, worker>>
                   ELSE UNCHANGED <<active_workers, worker, no_work_cycles,
                                    stop_event, sched>>
    /\ LET available_slots == MaxConcurrentCrawls - Cardinality(active_workers)
           start == IF available_slots > 0
                    THEN GetDomainsToStart(available_slots).start ELSE {}
       IN  /\ idleTicks' = IF available_slots > 0 /\ start = {}
                                /\ active_workers = {}
                             THEN idleTicks + 1 ELSE 0
           /\ polite' = [polite EXCEPT !.tasks =
                            [d \in Domains |-> IF d \in start THEN @[d] + 1
                                               ELSE @[d]]]
    /\ UNCHANGED <<sources, visited, queues, domain_counts, domain_stats, statistics,
                   checkpoint_file, max_pages, crawled_file, run, fetchLog, refetched,
                   startCounts, errored, lostAtReturn, lostAtCancel>>

\* after the loop: the gather over the worker tasks returns once none runs,
\* then the finally block sets the stop event
Gather ==
    /\ sched = "gather"
    /\ \A d \in Domains : worker[d].pc = "idle"
    /\ stop_event' = TRUE
    /\ sched' = "stopped"
    /\ UNCHANGED <<sources, visited, queues, domain_counts, domain_stats, statistics,
                   active_workers, finished_domains, no_work_cycles, worker,
                   checkpoint_file, max_pages, crawled_file, run, fetchLog, refetched,
                   startCounts, errored, lostAtReturn, lostAtCancel, idleTicks,
                   polite>>

\* a plausible slip: the finally block of start() sets the stop event and
\* returns without cancelling and awaiting the worker tasks
InterruptNoCancel ==
    /\ sched = "loop"
    /\ ~stop_event
    /\ stop_event' = TRUE
    /\ sched' = "stopped"
    /\ UNCHANGED <<sources, visited, queues, domain_counts, domain_stats, statistics,
                   finished_domains, no_work_cycles, checkpoint_file, max_pages,
                   crawled_file, run, fetchLog, refetched, startCounts, errored,
                   lostAtReturn, idleTicks, active_workers, worker,
                   lostAtCancel, polite>>

\* An exception or an interrupt reaches the scheduler loop (the constructor of
\* a DomainWorker raises, the main task is cancelled in its sleep).  The
\* finally block sets the stop event and cancels every worker task that is not
\* done: CancelledError is raised at the await the task is suspended in; it is
\* no Exception, so process_domain does not catch it and flushes nothing, and
\* _run_worker discards the domain in its finally.  A task that has not yet
\* run its first step ends without entering _run_worker.
Interrupt ==
    /\ sched = "loop"
    /\ ~stop_event
    /\ stop_event' = TRUE
    /\ sched' = "stopped"
    /\ active_workers' = {d \in active_workers : worker[d].pc = "created"}
    /\ worker' = [d \in Domains |-> IdleWorker]
    /\ lostAtCancel' = lostAtCancel \cup
                          UNION {Range(worker[d].page_buffer) : d \in Domains}
    /\ UNCHANGED <<sources, visited, queues, domain_counts, domain_stats, statistics,
                   finished_domains, no_work_cycles, checkpoint_file, max_pages,
                   crawled_file, run, fetchLog, refetched, startCounts, errored,
                   lostAtReturn, idleTicks>>
    /\ polite' = [polite EXCEPT !.tasks = [d \in Domains |-> 0]]

\* CrawlMonitor.run: the monitor task wakes from its sleep and saves a
\* checkpoint of the crawl state as it is; save_checkpoint contains no await.
\* The task lives from before the scheduler loop until the finally block of
\* start() cancels it.
MonitorRun ==
    /\ sched \in {"loop", "gather"}
    /\ checkpoint_file' = Some(SaveCheckpoint(State))
    /\ UNCHANGED <<sources, visited, queues, domain_counts, domain_stats, statistics,
                   active_workers, finished_domains, stop_event, no_work_cycles,
                   sched, worker, max_pages, crawled_file, run, fetchLog, refetched,
                   startCounts, errored, lostAtReturn, lostAtCancel, idleTicks,
                   polite>>

\* CrawlerApplication.run, finally: the final checkpoint
FinalCheckpoint ==
    /\ sched = "stopped"
    /\ checkpoint_file' = Some(SaveCheckpoint(State))
    /\ sched' = "saved"
    /\ UNCHANGED <<sources, visited, queues, domain_counts, domain_stats, statistics,
                   active_workers, finished_domains, stop_event, no_work_cycles,
                   worker, max_pages, crawled_file, run, fetchLog, refetched,
                   startCounts, errored, lostAtReturn, lostAtCancel, idleTicks,
                   polite>>
(***************************************************************************)
(* DomainWorker                                                            *)
(***************************************************************************)
\* a plausible slip: the visited test is left out
IsVisitedNever(vis, u) == FALSE

\* CrawlState.is_visited
IsVisited(vis, u) == u \in vis

\* a plausible slip: <= for <
CanContinueOffByOne(d) == GetDomainCount(d) <= sources[d].max_pages

\* DomainWorker._can_continue
CanContinue(d) == GetDomainCount(d) < sources[d].max_pages

\* a plausible slip: the answer of the robots handler is not consulted
ShouldCrawlUrlAlways(d, u) == TRUE

\* DomainWorker._should_crawl_url
ShouldCrawlUrl(d, u) == u \notin RobotsDisallowed

\* RobotsHandler.can_fetch raises for u: urlparse(url) raises ValueError
CanFetchRaises(u) == u \in MalformedUrls

\* The while loop of process_domain from its top to the next await or to its
\* exit, on the frontier q of d and the visited set vis: "fetch" when a URL
\* is handed to _process_url, "break" when the loop is left, "exhausted" when
\* pop raised IndexError, "error" when the loop raised an exception.  The
\* visited and the disallowed URLs are skipped by continue, without an await.
RECURSIVE WorkerLoop(_, _, _)
WorkerLoop(d, q, vis) ==
    IF stop_event \/ ~CanContinue(d)
    THEN [kind |-> "break", url |-> 0, q |-> q, vis |-> vis, wasVisited |-> FALSE]
    ELSE LET r == QPop(q)
         IN  IF ~r.ok
             THEN [kind |-> "exhausted", url |-> 0, q |-> q, vis |-> vis,
                   wasVisited |-> FALSE]
             ELSE IF IsVisited(vis, r.url)
             THEN WorkerLoop(d, r.q, vis)
             ELSE IF CanFetchRaises(r.url)
             THEN [kind |-> "error", url |-> r.url, q |-> r.q, vis |-> vis,
                   wasVisited |-> FALSE]
             ELSE IF ~ShouldCrawlUrl(d, r.url)
             THEN WorkerLoop(d, r.q, vis \cup {r.url})
             ELSE [kind |-> "fetch", url |-> r.url, q |-> r.q,
                   vis |-> vis \cup {r.url}, wasVisited |-> r.url \in vis]

\* the DomainResult process_domain returns after the loop
ResultAfterLoop(d, dc) ==
    LET count == IF d \in DOMAIN dc THEN dc[d] ELSE 0
    IN  [is_complete  |-> count >= sources[d].max_pages,
         is_exhausted |-> ~(count >= sources[d].max_pages)]

\* the DomainResult of the except IndexError branch
ResultExhausted == [is_complete |-> FALSE, is_exhausted |-> TRUE]

\* the DomainResult of the except Exception branch
ResultError == [is_complete |-> FALSE, is_exhausted |-> FALSE]

\* a plausible slip: the discard sits in the is_complete branch and in the
\* except branch of _run_worker instead of the finally
EndWorkerExhaustedStaysActive(d, result) ==
    /\ finished_domains' = IF result.is_complete \/ result.is_exhausted
                           THEN finished_domains \cup {d}
                           ELSE finished_domains
    /\ active_workers' = IF result.is_exhausted
                         THEN active_workers
                         ELSE active_workers \ {d}
    /\ worker' = [worker EXCEPT ![d] = IdleWorker]

\* a plausible slip: the finally of _run_worker does not discard the domain
EndWorkerStaysActive(d, result) ==
    /\ finished_domains' = IF result.is_complete \/ result.is_exhausted
                           THEN finished_domains \cup {d}
                           ELSE finished_domains
    /\ active_workers' = active_workers
    /\ worker' = [worker EXCEPT ![d] = IdleWorker]

\* CrawlOrchestrator._run_worker after process_domain has returned result
EndWorker(d, result) ==
    /\ finished_domains' = IF result.is_complete \/ result.is_exhausted
                           THEN finished_domains \cup {d}
                           ELSE finished_domains
    /\ active_workers' = active_workers \ {d}
    /\ worker' = [worker EXCEPT ![d] = IdleWorker]

\* DomainWorker._flush_buffer: the log after the buffer was appended to it
FlushBuffer(file, buffer) == file \o buffer

\* The worker task of d runs from its start, or from the end of its delay,
\* to the dispatch of the next fetch or to the end of the task.  The loop is
\* left by break or by an exception with a flush, by IndexError without one.
WorkerStep(d) ==
    /\ worker[d].pc \in {"created", "delay"}
    /\ LET r == WorkerLoop(d, queues[d], visited)
       IN  /\ visited' = r.vis
           /\ queues' = [queues EXCEPT ![d] = r.q]
           /\ IF r.kind = "fetch"
              THEN /\ worker' = [worker EXCEPT ![d].pc = "fetching", ![d].url = r.url]
                   /\ statistics' = IncrementStat(statistics, "fetch_crawl4ai")
                   /\ fetchLog' = [fetchLog EXCEPT ![r.url] = @ + 1]
                   /\ refetched' = IF r.wasVisited THEN refetched \cup {r.url}
                                   ELSE refetched
                   /\ UNCHANGED <<finished_domains, active_workers, crawled_file,
                                  errored, lostAtReturn>>
              ELSE /\ EndWorker(d, CASE r.kind = "exhausted" -> ResultExhausted
                                     [] r.kind = "error" -> ResultError
                                     [] OTHER -> ResultAfterLoop(d, domain_counts))
                   /\ crawled_file' = IF r.kind = "exhausted" THEN crawled_file
                                      ELSE FlushBuffer(crawled_file, worker[d].page_buffer)
                   /\ lostAtReturn' = IF r.kind = "exhausted"
                                      THEN lostAtReturn \cup Range(worker[d].page_buffer)
                                      ELSE lostAtReturn
                   /\ errored' = IF r.kind = "error" THEN errored \cup {d} ELSE errored
                   /\ UNCHANGED <<statistics, fetchLog, refetched>>
           /\ LET undelayed == IF worker[d].pc = "delay"
                                THEN polite.undelayed \ {d} ELSE polite.undelayed
              IN  polite' =
                    IF r.kind = "fetch"
                    THEN [polite EXCEPT !.undelayed = undelayed,
                                        !.hasty = IF d \in undelayed THEN @ \cup {d}
                                                  ELSE @]
                    ELSE [polite EXCEPT !.undelayed = undelayed,
                                        !.tasks[d] = @ - 1]
    /\ UNCHANGED <<sources, domain_counts, domain_stats, stop_event, no_work_cycles,
                   sched, checkpoint_file, max_pages, run, startCounts, lostAtCancel,
                   idleTicks>>

\* The fetch of d's worker returns with outcome o: the rest of _process_url
\* (the links of the page go into the PageResult, which process_domain reads
\* only for its success), the bookkeeping of process_domain, then the delay or
\* the end of the task.
FetchReturns(d, o) ==
    /\ worker[d].pc = "fetching"
    /\ o \in FetchOutcomes(worker[d].url)
    /\ LET u == worker[d].url
           known == d \in DOMAIN domain_stats      \* else KeyError, caught
           success == known /\ o = "accepted"
           dc == IF success THEN IncrementDomainCount(domain_counts, d)
                 ELSE domain_counts
           failures == worker[d].consecutive_failures + 1
           saved == Append(worker[d].page_buffer, u)            \* _save_page
           full == Len(saved) >= buffer_limit
           last == IF ~known \/ o = "failed" THEN "failed"
                   ELSE IF o = "accepted" THEN "accepted" ELSE "rejected"
       IN  /\ domain_stats' = IF known THEN UpdateLatency(domain_stats, d, Latency(u))
                              ELSE domain_stats
           /\ statistics' =
                IF ~known \/ o = "failed" THEN IncrementStat(statistics, "pages_failed")
                ELSE IF o = "accepted" THEN IncrementStat(statistics, "pages_accepted")
                ELSE IncrementStat(statistics, RejectionStat(o))
           /\ domain_counts' = dc
           /\ IF success
              THEN /\ worker' = [worker EXCEPT ![d].pc = "delay",
                                               ![d].consecutive_failures = 0,
                                               ![d].pages_crawled = @ + 1,
                                               ![d].page_buffer =
                                                   IF full THEN <<>> ELSE saved,
                                               ![d].last = last,
                                               ![d].failed_fetches = 0]
                   /\ crawled_file' = IF full THEN FlushBuffer(crawled_file, saved)
                                      ELSE crawled_file
                   /\ UNCHANGED <<finished_domains, active_workers>>
              ELSE IF failures >= max_failures
              THEN /\ EndWorker(d, ResultAfterLoop(d, dc))
                   /\ crawled_file' = FlushBuffer(crawled_file, worker[d].page_buffer)
              ELSE /\ worker' = [worker EXCEPT ![d].pc = "delay",
                                               ![d].consecutive_failures = failures,
                                               ![d].last = last,
                                               ![d].failed_fetches =
                                                   IF last = "failed" THEN @ + 1
                                                   ELSE @]
                   /\ UNCHANGED <<finished_domains, active_workers, crawled_file>>
           /\ polite' = [polite EXCEPT !.undelayed = @ \cup {d},
                                       !.tasks[d] = IF ~success /\ failures >= max_failures
                                                    THEN @ - 1 ELSE @]
    /\ UNCHANGED <<sources, visited, queues, stop_event, no_work_cycles, sched,
                   checkpoint_file, max_pages, run, fetchLog, refetched, startCounts,
                   errored, lostAtReturn, lostAtCancel, idleTicks>>
(***************************************************************************)
(* The runs: a source list and the CrawlState given to the orchestrator    *)
(***************************************************************************)
\* a fresh start; a.org is named by two sources
FreshSources ==
    <<CrawlSource(1, 2, 1, 1, 45), CrawlSource(2, 4, 1, 1, 45),
      CrawlSource(1, 1, 1, 2, 30), CrawlSource(3, 6, 1, 2, 45)>>

\* a checkpoint file of an earlier run: URL 2 is visited and queued, c.org
\* has more pages than its budget is now
ResumeCheckpoint ==
    [visited       |-> <<2>>,
     queues        |-> (1 :> <<1, 2, 5, 3>>) @@ (2 :> <<4>>) @@ (3 :> <<6>>),
     domain_counts |-> (1 :> 1) @@ (3 :> 2),
     domain_stats  |-> [d \in {1, 2, 3} |->
                          [seed_prefix |-> d, avg_latency |-> <<2, 1>>,
                           request_count |-> 1, total_latency |-> 2]],
     statistics    |-> [n \in StatNames |->
                          IF n \in {"pages_accepted", "fetch_crawl4ai"} THEN 3 ELSE 0],
     timestamp     |-> 1]

\* a run over a long frontier of c.org
BulkSources == <<CrawlSource(3, 6, 2, 1, 45), CrawlSource(1, 1, 1, 1, 45)>>

BulkCheckpoint ==
    [visited       |-> <<>>,
     queues        |-> (1 :> <<1>>) @@ (3 :> [i \in 1..NumBulkUrls |-> 5 + i]),
     domain_counts |-> <<>>,
     domain_stats  |-> [d \in {1, 3} |-> NewDomainStats(d)],
     statistics    |-> [n \in StatNames |-> 0],
     timestamp     |-> 1]

\* one domain with one seed and a budget of two pages; its first page links
\* to three more
LinkSources == <<CrawlSource(3, 6, 2, 1, 45)>>

\* two domains of one page each, run with --max-pages 1
CappedSources == <<CrawlSource(1, 1, 1, 1, 45), CrawlSource(2, 4, 1, 1, 45)>>

\* a checkpoint whose frontier of a.org holds a URL that urlparse refuses
ErrorSources == <<CrawlSource(1, 1, 2, 1, 45), CrawlSource(2, 4, 1, 1, 45)>>

ErrorCheckpoint ==
    [visited       |-> <<>>,
     queues        |-> (1 :> <<1, 0, 3>>) @@ (2 :> <<4>>),
     domain_counts |-> <<>>,
     domain_stats  |-> [d \in {1, 2} |-> NewDomainStats(d)],
     statistics    |-> [n \in StatNames |-> 0],
     timestamp     |-> 1]

\* three domains for two slots: b.org and c.org have the same priority, and
\* c.org the longer frontier
RankedSources ==
    <<CrawlSource(1, 1, 1, 1, 45), CrawlSource(2, 4, 1, 2, 45),
      CrawlSource(3, 6, 1, 2, 45)>>

RankedCheckpoint ==
    [visited       |-> <<>>,
     queues        |-> (1 :> <<1>>) @@ (2 :> <<4>>) @@ (3 :> <<6, 7>>),
     domain_counts |-> <<>>,
     domain_stats  |-> [d \in {1, 2, 3} |-> NewDomainStats(d)],
     statistics    |-> [n \in StatNames |-> 0],
     timestamp     |-> 1]

\* b.org was added to the source configuration after the earlier run wrote
\* its checkpoint, which knows a.org only
GrownSources == <<CrawlSource(1, 1, 2, 1, 45), CrawlSource(2, 4, 1, 1, 45)>>

GrownCheckpoint ==
    [visited       |-> <<>>,
     queues        |-> (1 :> <<1>>),
     domain_counts |-> <<>>,
     domain_stats  |-> (1 :> NewDomainStats(1)),
     statistics    |-> [n \in StatNames |-> 0],
     timestamp     |-> 1]

Scenarios ==
    {[srcs |-> FreshSources,  file |-> None, max_pages |-> None],
     [srcs |-> FreshSources,  file |-> Some(ResumeCheckpoint), max_pages |-> None],
     [srcs |-> BulkSources,   file |-> Some(BulkCheckpoint), max_pages |-> None],
     [srcs |-> LinkSources,   file |-> None, max_pages |-> None],
     [srcs |-> CappedSources, file |-> None, max_pages |-> Some(1)],
     [srcs |-> ErrorSources,  file |-> Some(ErrorCheckpoint), max_pages |-> None],
     [srcs |-> RankedSources, file |-> Some(RankedCheckpoint), max_pages |-> None],
     [srcs |-> GrownSources,  file |-> Some(GrownCheckpoint), max_pages |-> None]}

\* CrawlerApplication.run up to orchestrator.start, for the run sc
CInitOf(sc) ==
    LET st == InitialState(sc.srcs, LoadCheckpoint(sc.file))
    IN  /\ sources = Merged(sc.srcs).sources
        /\ visited = st.visited
        /\ queues = st.queues
        /\ domain_counts = st.domain_counts
        /\ domain_stats = st.domain_stats
        /\ statistics = st.statistics
        /\ active_workers = {}
        /\ finished_domains = {}
        /\ stop_event = FALSE
        /\ no_work_cycles = 0
        /\ sched = "loop"
        /\ worker = [d \in Domains |-> IdleWorker]
        /\ checkpoint_file = sc.file
        /\ max_pages = OrchestratorMaxPages(sc.srcs, sc.max_pages)
        /\ crawled_file = <<>>
        /\ run = sc
        /\ fetchLog = [u \in Urls |-> 0]
        /\ refetched = {}
        /\ startCounts = st.domain_counts
        /\ errored = {}
        /\ lostAtReturn = {}
        /\ lostAtCancel = {}
        /\ idleTicks = 0
        /\ polite = [tasks |-> [d \in Domains |-> 0], undelayed |-> {},
                     hasty |-> {}]

CInit == \E sc \in Scenarios : CInitOf(sc)

CIdle == CInitOf([srcs |-> FreshSources, file |-> None, max_pages |-> None])

\* the crawl states a checkpoint is written from
SavedStates ==
    {InitialState(FreshSources, None), FromDict(ResumeCheckpoint),
     FromDict(ErrorCheckpoint)}

\* before the first save: no checkpoint or the one of an earlier run; no
\* temporary file or the rest of a save that was killed
SInit ==
    /\ files \in [ckpt : {None, Some(JsonDump(ResumeCheckpoint))},
                  tmp  : {None, Some(SubSeq(JsonDump(ErrorCheckpoint), 1, 2))}]
    /\ saving = NotSaving

\* the sources ConfigLoader can build from a sources file: four name a.org
\* (two of them the same URL), two name b.org
SourcePool ==
    {CrawlSource(1, 1, 1, 2, 30), CrawlSource(1, 2, 2, 1, 45),
     CrawlSource(1, 1, 2, 3, 45), CrawlSource(1, 3, 1, 1, 20),
     CrawlSource(2, 4, 1, 2, 45), CrawlSource(2, 4, 3, 1, 30)}

MaxSources == 3

SourceLists == UNION {[1..n -> SourcePool] : n \in 1..MaxSources}

\* no orchestrator under construction
OIdle == srcList = <<>> /\ given = None /\ built = None

OInit ==
    /\ srcList \in SourceLists
    /\ given \in {None, Some(FromDict(ResumeCheckpoint))}
    /\ built = None

\* CrawlOrchestrator(sources, max_pages, initial_state)
Construct(cli_max_pages) ==
    /\ built = None
    /\ built' = Some([sources   |-> Merged(srcList).sources,
                      max_pages |-> OrchestratorMaxPages(srcList, cli_max_pages),
                      state     |-> InitialState(srcList, given),
                      active_workers   |-> {},
                      finished_domains |-> {}])
    /\ UNCHANGED <<srcList, given>>

(***************************************************************************)
(* RobotsHandler: robots policies and their cache (robots_handler.py)      *)
(* Strings are sequences of characters.  A robots.txt is the sequence of   *)
(* its groups, each a set of user agents and a sequence of rule lines      *)
(* <<directive, path>>.                                                    *)
(***************************************************************************)
CACHE_TTL_HOURS == 24

StartsWith(str, prefix) ==
    /\ Len(prefix) <= Len(str)
    /\ SubSeq(str, 1, Len(prefix)) = prefix

\* RuleLine.__init__ of urllib.robotparser: an empty Disallow allows
RuleLine(path, allowance) ==
    [path      |-> path,
     allowance |-> IF path = <<>> /\ ~allowance THEN TRUE ELSE allowance]

\* RobotFileParser(): nothing read yet
NewParser ==
    [entries |-> <<>>, default_entry |-> None, disallow_all |-> FALSE,
     allow_all |-> FALSE, last_checked |-> FALSE]

RuleLinesOf(rules) ==
    [i \in 1..Len(rules) |-> RuleLine(rules[i][2], rules[i][1] = "allow")]

\* RobotFileParser.parse, group by group: a group without rule lines is
\* dropped, the first group naming "*" becomes the default entry, the others
\* are appended to entries; last_checked is set before the first line
RECURSIVE AddEntries(_, _)
AddEntries(parser, groups) ==
    IF groups = <<>> THEN parser
    ELSE LET g     == Head(groups)
             entry == [useragents |-> g.useragents,
                       rulelines  |-> RuleLinesOf(g.rules)]
         IN  IF g.rules = <<>>
             THEN AddEntries(parser, Tail(groups))
             ELSE IF "*" \in g.useragents
             THEN AddEntries(
                    IF parser.default_entry = None
                    THEN [parser EXCEPT !.default_entry = Some(entry)]
                    ELSE parser,
                    Tail(groups))
             ELSE AddEntries(
                    [parser EXCEPT !.entries = Append(@, entry)],
                    Tail(groups))

Parse(parser, groups) ==
    AddEntries([parser EXCEPT !.last_checked = TRUE], groups)

\* Entry.applies_to: the catch-all agent, or an agent named in useragent
EntryAppliesTo(entry, useragent) ==
    \E agent \in entry.useragents : agent = "*" \/ agent = useragent

\* Entry.allowance: the first rule line whose path starts filename decides
EntryAllowance(entry, filename) ==
    LET hits == {i \in 1..Len(entry.rulelines) :
                    StartsWith(filename, entry.rulelines[i].path)}
    IN  IF hits = {} THEN TRUE ELSE entry.rulelines[Min(hits)].allowance

\* RobotFileParser.can_fetch
ParserCanFetch(parser, useragent, path) ==
    IF parser.disallow_all THEN FALSE
    ELSE IF parser.allow_all THEN TRUE
    ELSE IF ~parser.last_checked THEN FALSE
    ELSE LET hits == {i \in 1..Len(parser.entries) :
                         EntryAppliesTo(parser.entries[i], useragent)}
         IN  IF hits # {}
             THEN EntryAllowance(parser.entries[Min(hits)], path)
             ELSE IF parser.default_entry # None
             THEN EntryAllowance(parser.default_entry[1], path)
             ELSE TRUE

\* the URLs asked about: path and query of a URL of the domain
RobotsUrl(path, query) == [path |-> path, query |-> query]

RobotsUrls ==
    {RobotsUrl(<<>>, <<>>),
     RobotsUrl(<<"/", "a">>, <<>>),
     RobotsUrl(<<"/", "p">>, <<>>),
     RobotsUrl(<<"/", "p", "/", "a">>, <<>>),
     RobotsUrl(<<"/", "a">>, <<"q">>)}

\* the path handed to the parser: path, or "/", then "?" and the query
PathAndQuery(u) ==
    (IF u.path = <<>> THEN <<"/">> ELSE u.path)
        \o (IF u.query # <<>> THEN <<"?">> \o u.query ELSE <<>>)

\* RobotsHandler.can_fetch, parser being self.parsers.get(domain)
HandlerCanFetch(parser, u) ==
    IF parser = None THEN TRUE
    ELSE ParserCanFetch(parser[1], "*", PathAndQuery(u))

Group(agents, rules) == [useragents |-> agents, rules |-> rules]

\* what the server may answer: a robots.txt (empty; one that disallows /p;
\* one that allows /p/a inside a disallowed /p; one that disallows all; one
\* with a group for another agent and an empty Disallow), no file, no answer
RobotsResponses ==
    {[status |-> 200, groups |-> <<>>],
     [status |-> 200,
      groups |-> <<Group({"*"}, <<<<"disallow", <<"/", "p">>>>>>)>>],
     [status |-> 200,
      groups |-> <<Group({"*"}, <<<<"allow", <<"/", "p", "/", "a">>>>,
                                  <<"disallow", <<"/", "p">>>>>>)>>],
     [status |-> 200,
      groups |-> <<Group({"*"}, <<<<"disallow", <<"/">>>>>>)>>],
     [status |-> 200,
      groups |-> <<Group({"bot"}, <<<<"disallow", <<"/">>>>>>),
                   Group({"*"}, <<<<"disallow", <<>>>>>>)>>],
     [status |-> 404, groups |-> <<>>],
     [status |-> 0, groups |-> <<>>]}

\* the test of freshness of a cache entry, in _load_cache and load_robots
WithinTtl(entry, now) == entry.timestamp > now - CACHE_TTL_HOURS

\* _load_cache, for the entry of the domain
LoadCache(file, now) ==
    IF file # None /\ WithinTtl(file[1], now) THEN file ELSE None

\* the parser load_robots makes of the server's answer; status 0 stands for
\* a request that raised
FetchedParser(response) ==
    IF response.status >= 200 /\ response.status < 300
    THEN Parse(NewParser, response.groups)
    ELSE [NewParser EXCEPT !.allow_all = TRUE]

\* the parser load_robots makes of a cache entry
CachedParser(entry) == [NewParser EXCEPT !.allow_all = entry.allow_all]

MaxHandlers == 2
ClockStep == 12
MaxClock == 36

\* no RobotsHandler in use
RIdle ==
    /\ robotsTxt = None /\ parsers = None /\ cache = None /\ cacheFile = None
    /\ clock = 0 /\ handlers = 0 /\ origin = "none" /\ freshPolicy = None
    /\ asked = None

\* the first RobotsHandler() of a machine without a cache file
RInit ==
    /\ robotsTxt \in {Some(r) : r \in RobotsResponses}
    /\ parsers = None /\ cache = None /\ cacheFile = None
    /\ clock = 0 /\ handlers = 1 /\ origin = "none" /\ freshPolicy = None
    /\ asked = None

\* RobotsHandler.__init__ of a later run
NewHandler ==
    /\ handlers < MaxHandlers
    /\ handlers' = handlers + 1
    /\ parsers' = None
    /\ cache' = LoadCache(cacheFile, clock)
    /\ origin' = "none"
    /\ asked' = None
    /\ UNCHANGED <<robotsTxt, cacheFile, clock, freshPolicy>>

\* load_robots, restoring from a cache entry within its TTL
LoadRobotsCached ==
    /\ parsers = None
    /\ cache # None /\ WithinTtl(cache[1], clock)
    /\ parsers' = Some(CachedParser(cache[1]))
    /\ origin' = "cache"
    /\ UNCHANGED <<robotsTxt, cache, cacheFile, clock, handlers, freshPolicy,
                   asked>>

\* load_robots, fetching robots.txt and writing the cache
LoadRobotsFetched ==
    /\ parsers = None
    /\ ~(cache # None /\ WithinTtl(cache[1], clock))
    /\ LET parser == FetchedParser(robotsTxt[1])
           entry  == [allow_all |-> parser.allow_all, timestamp |-> clock]
       IN  /\ parsers' = Some(parser)
           /\ cache' = Some(entry)
           /\ cacheFile' = Some(entry)
           /\ freshPolicy' = IF parser.last_checked THEN Some(parser) ELSE None
    /\ origin' = "fetched"
    /\ UNCHANGED <<robotsTxt, clock, handlers, asked>>

\* can_fetch(domain, url)
CanFetch(u) ==
    /\ asked' = Some([url |-> u, answer |-> HandlerCanFetch(parsers, u)])
    /\ UNCHANGED <<robotsTxt, parsers, cache, cacheFile, clock, handlers,
                   origin, freshPolicy>>

\* time passes
ClockTick ==
    /\ clock < MaxClock
    /\ clock' = clock + ClockStep
    /\ UNCHANGED <<robotsTxt, parsers, cache, cacheFile, handlers, origin,
                   freshPolicy, asked>>

(***************************************************************************)
(* RobotsHandler: sitemap discovery (robots_handler.py)                    *)
(* Sitemaps are numbered; page URLs are numbers.  A sitemap document has a *)
(* status, the <url> locations it lists and the <sitemap> locations it     *)
(* lists.                                                                  *)
(***************************************************************************)
MAX_SITEMAP_URLS == 50

NumSitemaps == 5

Sitemaps == 1..NumSitemaps

\* https://{domain}/sitemap.xml
DefaultSitemap == 1

\* list[:n], n >= 0
Take(list, n) == SubSeq(list, 1, IF n < Len(list) THEN n ELSE Len(list))

\* the page URLs lo, lo + 1, .., hi in this order
Span(lo, hi) == [i \in 1..(hi - lo + 1) |-> lo + i - 1]

\* the sitemaps after sm: what an index may list without a cycle
Later(sm) == [i \in 1..(NumSitemaps - sm) |-> sm + i]

SitemapDoc(status, urls, sitemaps) ==
    [status |-> status, urls |-> urls, sitemaps |-> sitemaps]

\* what the server may hold at sitemap sm: nothing; twenty pages; thirty
\* pages, ten of them shared with the former, and an index; sixty pages; an
\* index alone
DocKinds == {"missing", "pages", "pages_and_index", "many_pages", "index"}

SitemapDocOf(sm, kind) ==
    CASE kind = "missing"         -> SitemapDoc(404, <<>>, <<>>)
      [] kind = "pages"           -> SitemapDoc(200, Span(1, 20), <<>>)
      [] kind = "pages_and_index" -> SitemapDoc(200, Span(11, 40), Later(sm))
      [] kind = "many_pages"      -> SitemapDoc(200, Span(1, 60), <<>>)
      [] kind = "index"           -> SitemapDoc(200, <<>>, Later(sm))

\* the lists of sitemaps a robots.txt may declare
DeclaredLists == {<<>>, <<3, 3>>, <<2, 3, 4, 5>>}

\* list(all_page_urls) in place of list(set(all_page_urls))
KeepUrls(list) == list

\* list(set(list)); the order is that of SetToList
DistinctUrls(list) == SetToList(Range(list))

\* _fetch_and_parse_sitemap and its loop over the nested sitemaps
RECURSIVE FetchAndParseSitemap(_, _, _)
RECURSIVE NestedLoop(_, _, _, _)
NestedLoop(web, nested, remaining_quota, collected) ==
    IF nested = <<>> THEN collected
    ELSE LET got == collected \o
                      FetchAndParseSitemap(web, Head(nested),
                                           remaining_quota - Len(collected))
         IN  IF remaining_quota # 0 /\ Len(got) >= remaining_quota
             THEN got
             ELSE NestedLoop(web, Tail(nested), remaining_quota, got)

FetchAndParseSitemap(web, sitemap_url, remaining_quota) ==
    IF remaining_quota <= 0 THEN <<>>
    ELSE IF web[sitemap_url].status # 200 THEN <<>>
    ELSE NestedLoop(web, Take(web[sitemap_url].sitemaps, 3), remaining_quota,
                    IF remaining_quota # 0
                    THEN Take(web[sitemap_url].urls, remaining_quota)
                    ELSE web[sitemap_url].urls)

\* the loop of fetch_sitemaps over sitemap_urls[:3]
RECURSIVE SitemapLoop(_, _, _)
SitemapLoop(web, sitemap_urls, all_page_urls) ==
    IF sitemap_urls = <<>> THEN all_page_urls
    ELSE LET got == all_page_urls \o
                      FetchAndParseSitemap(web, Head(sitemap_urls),
                                           MAX_SITEMAP_URLS - Len(all_page_urls))
         IN  IF Len(got) >= MAX_SITEMAP_URLS
             THEN got
             ELSE SitemapLoop(web, Tail(sitemap_urls), got)

\* all_page_urls before the last assignment of fetch_sitemaps
AllPageUrls(web, declared) ==
    SitemapLoop(web,
                Take(IF declared # <<>> THEN declared ELSE <<DefaultSitemap>>, 3),
                <<>>)

\* The deepest level at which the recursion of _fetch_and_parse_sitemap
\* requests a document, the call of fetch_sitemaps being level 0 and a call
\* for a nested sitemap one level below its caller; level - 1 when the call
\* returns on its quota without a request.
RECURSIVE DeepestRequest(_, _, _, _)
RECURSIVE DeepestNested(_, _, _, _, _)
DeepestNested(web, nested, remaining_quota, collected, level) ==
    IF nested = <<>> THEN level
    ELSE LET quota == remaining_quota - Len(collected)
             got   == collected \o FetchAndParseSitemap(web, Head(nested), quota)
             below == DeepestRequest(web, Head(nested), quota, level + 1)
         IN  IF remaining_quota # 0 /\ Len(got) >= remaining_quota
             THEN Max({level, below})
             ELSE Max({below,
                       DeepestNested(web, Tail(nested), remaining_quota, got, level)})

DeepestRequest(web, sitemap_url, remaining_quota, level) ==
    IF remaining_quota <= 0 THEN level - 1
    ELSE IF web[sitemap_url].status # 200 THEN level
    ELSE DeepestNested(web, Take(web[sitemap_url].sitemaps, 3), remaining_quota,
                       Take(web[sitemap_url].urls, remaining_quota), level)

\* the same over the loop of fetch_sitemaps
RECURSIVE DeepestOfLoop(_, _, _)
DeepestOfLoop(web, sitemap_urls, all_page_urls) ==
    IF sitemap_urls = <<>> THEN 0
    ELSE LET quota == MAX_SITEMAP_URLS - Len(all_page_urls)
             got   == all_page_urls \o
                        FetchAndParseSitemap(web, Head(sitemap_urls), quota)
             here  == DeepestRequest(web, Head(sitemap_urls), quota, 0)
         IN  IF Len(got) >= MAX_SITEMAP_URLS
             THEN here
             ELSE Max({here, DeepestOfLoop(web, Tail(sitemap_urls), got)})

DeepestLevel(web, declared) ==
    DeepestOfLoop(web,
                  Take(IF declared # <<>> THEN declared ELSE <<DefaultSitemap>>, 3),
                  <<>>)

\* the list fetch_sitemaps computes, caches and returns
DiscoveredUrls(web, declared) ==
    DistinctUrls(Take(AllPageUrls(web, declared), MAX_SITEMAP_URLS))

\* no sitemap discovery
MIdle ==
    /\ smWeb = <<>> /\ smDeclared = <<>> /\ smLoaded = FALSE
    /\ smCache = None /\ smReturned = None

\* a handler that has not loaded the robots.txt of the domain
MInit ==
    /\ \E kinds \in [Sitemaps -> DocKinds] :
          smWeb = [sm \in Sitemaps |-> SitemapDocOf(sm, kinds[sm])]
    /\ smDeclared \in DeclaredLists
    /\ smLoaded = FALSE
    /\ smCache = None
    /\ smReturned = None

\* fetch_sitemaps before load_robots
FetchSitemapsUnloaded ==
    /\ ~smLoaded
    /\ smReturned # Some([urls |-> <<>>, path |-> "unloaded"])
    /\ smReturned' = Some([urls |-> <<>>, path |-> "unloaded"])
    /\ UNCHANGED <<smWeb, smDeclared, smLoaded, smCache>>

\* load_robots puts the parser of the domain in self.parsers
LoadRobotsForSitemaps ==
    /\ ~smLoaded
    /\ smLoaded' = TRUE
    /\ UNCHANGED <<smWeb, smDeclared, smCache, smReturned>>

\* fetch_sitemaps answered from the cache entry
FetchSitemapsCached ==
    /\ smLoaded
    /\ smCache # None /\ smCache[1].within_ttl
    /\ smReturned # Some([urls |-> smCache[1].sitemaps, path |-> "cache"])
    /\ smReturned' = Some([urls |-> smCache[1].sitemaps, path |-> "cache"])
    /\ UNCHANGED <<smWeb, smDeclared, smLoaded, smCache>>

\* fetch_sitemaps reading the sitemaps of the server
FetchSitemapsFetched ==
    /\ smLoaded
    /\ ~(smCache # None /\ smCache[1].within_ttl)
    /\ \E r \in {DiscoveredUrls(smWeb, smDeclared)} :
          /\ smCache' = Some([sitemaps |-> r, within_ttl |-> TRUE])
          /\ smReturned' = Some([urls |-> r, path |-> "fetched"])
    /\ UNCHANGED <<smWeb, smDeclared, smLoaded>>

\* the cache entry gets older than CACHE_TTL_HOURS
SitemapCacheExpires ==
    /\ smCache # None /\ smCache[1].within_ttl
    /\ smCache' = Some([smCache[1] EXCEPT !.within_ttl = FALSE])
    /\ UNCHANGED <<smWeb, smDeclared, smLoaded, smReturned>>

(***************************************************************************)
(* The specifications                                                      *)
(***************************************************************************)
QNext ==
    /\ \/ \E u \in QUrls : QAddOp(u)
       \/ QPopOp
       \/ \E urls \in QLists : QFromListOp(urls)
    /\ UNCHANGED <<dvars, cvars, svars, ovars, rvars, mvars>>

\* only the frontier moves; the crawl stays as constructed
IdleInit == QInit /\ DInit /\ CIdle /\ SIdle /\ OIdle /\ RIdle /\ MIdle

SpecQ == IdleInit /\ [][QNext]_vars

\* The instances are interchangeable, and so are the texts 2..6: instance w is
\* constructed after instance w - 1, and text p of 3..6 is first met after
\* text p - 1 was stored.
Constructible(w) == IF w = 1 THEN TRUE ELSE seen_titles[w - 1] # None

Offered(p) == IF p \in 3..6 THEN PageFingerprint(p - 1) \in fingerprints ELSE TRUE

DNext ==
    /\ \/ \E w \in Instances : Constructible(w) /\ NewDedupDatabase(w)
       \/ \E w \in Instances : \E p \in Pages : Offered(p) /\ CheckDuplicateCall(w, p)
    /\ UNCHANGED <<qvars, cvars, svars, ovars, rvars, mvars>>

SpecD == IdleInit /\ [][DNext]_vars

\* a plausible slip, in the two places that make a worker heed the stop
\* event: the worker loop does not test it, and the finally block of start()
\* sets it without cancelling the worker tasks
RECURSIVE WorkerLoopUnheeded(_, _, _)
WorkerLoopUnheeded(d, q, vis) ==
    IF ~CanContinue(d)
    THEN [kind |-> "break", url |-> 0, q |-> q, vis |-> vis, wasVisited |-> FALSE]
    ELSE LET r == QPop(q)
         IN  IF ~r.ok
             THEN [kind |-> "exhausted", url |-> 0, q |-> q, vis |-> vis,
                   wasVisited |-> FALSE]
             ELSE IF IsVisited(vis, r.url)
             THEN WorkerLoopUnheeded(d, r.q, vis)
             ELSE IF CanFetchRaises(r.url)
             THEN [kind |-> "error", url |-> r.url, q |-> r.q, vis |-> vis,
                   wasVisited |-> FALSE]
             ELSE IF ~ShouldCrawlUrl(d, r.url)
             THEN WorkerLoopUnheeded(d, r.q, vis \cup {r.url})
             ELSE [kind |-> "fetch", url |-> r.url, q |-> r.q,
                   vis |-> vis \cup {r.url}, wasVisited |-> r.url \in vis]

WorkerStepUnheeded(d) ==
    /\ worker[d].pc \in {"created", "delay"}
    /\ LET r == WorkerLoopUnheeded(d, queues[d], visited)
       IN  /\ visited' = r.vis
           /\ queues' = [queues EXCEPT ![d] = r.q]
           /\ IF r.kind = "fetch"
              THEN /\ worker' = [worker EXCEPT ![d].pc = "fetching", ![d].url = r.url]
                   /\ statistics' = IncrementStat(statistics, "fetch_crawl4ai")
                   /\ fetchLog' = [fetchLog EXCEPT ![r.url] = @ + 1]
                   /\ refetched' = IF r.wasVisited THEN refetched \cup {r.url}
                                   ELSE refetched
                   /\ UNCHANGED <<finished_domains, active_workers, crawled_file,
                                  errored, lostAtReturn>>
              ELSE /\ EndWorker(d, CASE r.kind = "exhausted" -> ResultExhausted
                                     [] r.kind = "error" -> ResultError
                                     [] OTHER -> ResultAfterLoop(d, domain_counts))
                   /\ crawled_file' = IF r.kind = "exhausted" THEN crawled_file
                                      ELSE FlushBuffer(crawled_file, worker[d].page_buffer)
                   /\ lostAtReturn' = IF r.kind = "exhausted"
                                      THEN lostAtReturn \cup Range(worker[d].page_buffer)
                                      ELSE lostAtReturn
                   /\ errored' = IF r.kind = "error" THEN errored \cup {d} ELSE errored
                   /\ UNCHANGED <<statistics, fetchLog, refetched>>
           /\ LET undelayed == IF worker[d].pc = "delay"
                                THEN polite.undelayed \ {d} ELSE polite.undelayed
              IN  polite' =
                    IF r.kind = "fetch"
                    THEN [polite EXCEPT !.undelayed = undelayed,
                                        !.hasty = IF d \in undelayed THEN @ \cup {d}
                                                  ELSE @]
                    ELSE [polite EXCEPT !.undelayed = undelayed,
                                        !.tasks[d] = @ - 1]
    /\ UNCHANGED <<sources, domain_counts, domain_stats, stop_event, no_work_cycles,
                   sched, checkpoint_file, max_pages, run, startCounts, lostAtCancel,
                   idleTicks>>

CNextStopUnheeded ==
    /\ \/ Tick
       \/ Gather
       \/ InterruptNoCancel
       \/ FinalCheckpoint
       \/ \E d \in Domains : WorkerStepUnheeded(d)
       \/ \E d \in Domains : \E o \in FetchOutcomes(worker[d].url) : FetchReturns(d, o)
    /\ UNCHANGED <<qvars, dvars, svars, ovars, rvars, mvars>>

CNext ==
    /\ \/ Tick
       \/ Gather
       \/ Interrupt
       \/ FinalCheckpoint
       \/ \E d \in Domains : WorkerStep(d)
       \/ \E d \in Domains : \E o \in FetchOutcomes(worker[d].url) : FetchReturns(d, o)
    /\ UNCHANGED <<qvars, dvars, svars, ovars, rvars, mvars>>

Init == QInit /\ DInit /\ CInit /\ SIdle /\ OIdle /\ RIdle /\ MIdle

Next == CNext

Spec == Init /\ [][Next]_vars

\* The crawl with the scheduling the claim of termination assumes: the sleep
\* of the scheduler, the delay of a worker and a fetch all return, so every
\* task that can take its next step takes it; no interrupt is required to
\* come.
Fairness ==
    /\ WF_cvars(Tick)
    /\ WF_cvars(Gather)
    /\ \A d \in Domains : WF_cvars(WorkerStep(d))
    /\ \A d \in Domains :
          WF_cvars(\E o \in FetchOutcomes(worker[d].url) : FetchReturns(d, o))

SpecLive == Init /\ [][Next]_vars /\ Fairness

\* The crawl with its monitor task, which saves a checkpoint now and then.
\* The runs are those of Spec but for the run of the long frontier.
MonitoredScenarios == {sc \in Scenarios : sc.srcs # BulkSources}

MonitoredCInit == \E sc \in MonitoredScenarios : CInitOf(sc)

MonitoredInit ==
    QInit /\ DInit /\ MonitoredCInit /\ SIdle /\ OIdle /\ RIdle /\ MIdle

PNext ==
    /\ \/ Tick
       \/ Gather
       \/ Interrupt
       \/ MonitorRun
       \/ FinalCheckpoint
       \/ \E d \in Domains : WorkerStep(d)
       \/ \E d \in Domains : \E o \in FetchOutcomes(worker[d].url) : FetchReturns(d, o)
    /\ UNCHANGED <<qvars, dvars, svars, ovars, rvars, mvars>>

SpecP == MonitoredInit /\ [][PNext]_vars

SNext ==
    /\ \/ \E st \in SavedStates : StartSave(st)
       \/ OpenStep
       \/ WriteStep
       \/ ReplaceStep
       \/ SaveError
       \/ SaveCrash
    /\ UNCHANGED <<qvars, dvars, cvars, ovars, rvars, mvars>>

SaveInit == QInit /\ DInit /\ CIdle /\ SInit /\ OIdle /\ RIdle /\ MIdle

SpecS == SaveInit /\ [][SNext]_vars

ONext ==
    /\ \E m \in {None, Some(0), Some(1)} : Construct(m)
    /\ UNCHANGED <<qvars, dvars, cvars, svars, rvars, mvars>>

BuildInit == QInit /\ DInit /\ CIdle /\ SIdle /\ OInit /\ RIdle /\ MIdle

SpecO == BuildInit /\ [][ONext]_vars

RNext ==
    /\ \/ NewHandler
       \/ LoadRobotsCached
       \/ LoadRobotsFetched
       \/ \E u \in RobotsUrls : CanFetch(u)
       \/ ClockTick
    /\ UNCHANGED <<qvars, dvars, cvars, svars, ovars, mvars>>

RobotsInit == QInit /\ DInit /\ CIdle /\ SIdle /\ OIdle /\ RInit /\ MIdle

SpecR == RobotsInit /\ [][RNext]_vars

MNext ==
    /\ \/ FetchSitemapsUnloaded
       \/ LoadRobotsForSitemaps
       \/ FetchSitemapsCached
       \/ FetchSitemapsFetched
       \/ SitemapCacheExpires
    /\ UNCHANGED <<qvars, dvars, cvars, svars, ovars, rvars>>

SitemapInit ==
    QInit /\ DInit /\ CIdle /\ SIdle /\ OIdle /\ RIdle /\ MInit

SpecM == SitemapInit /\ [][MNext]_vars
(***************************************************************************)
(* Properties of the crawl (Spec)                                          *)
(***************************************************************************)
StartCount(d) == IF d \in DOMAIN startCounts THEN startCounts[d] ELSE 0

RunningTasks == {d \in Domains : worker[d].pc # "idle"}

NoUrlDispatchedTwice ==
    /\ \A u \in Urls : fetchLog[u] <= 1
    /\ refetched = {}
    /\ \A d \in Domains : worker[d].pc = "fetching" => worker[d].url \in visited

\* C1: no URL is handed to the fetcher more than once in a run; a URL is
\* handed over only if it was not in the visited set, and it is in the visited
\* set while its fetch is in flight; the visited set never loses an element.
C1_NoUrlFetchedTwice ==
    /\ []NoUrlDispatchedTwice
    /\ [][visited \subseteq visited']_vars

\* two fetches are in flight, URL 1 has been fetched before, and URL 2, visited
\* in an earlier run and still queued at the start, was popped and skipped
C1_Witness ==
    /\ Cardinality({d \in Domains : worker[d].pc = "fetching"}) = 2
    /\ 1 \in DOMAIN startCounts
    /\ fetchLog[1] = 1
    /\ 2 \in visited /\ fetchLog[2] = 0 /\ 2 \notin Queued(queues[1])

\* C2: in a run that starts with a domain's count at or below its budget, the
\* domain's count never exceeds the budget (max_pages after merging).
C2_CountWithinBudget ==
    \A d \in DOMAIN sources :
        StartCount(d) <= sources[d].max_pages
            => GetDomainCount(d) <= sources[d].max_pages

\* a domain whose count this run has raised to its budget while URLs are
\* still queued for it
C2_Witness ==
    \E d \in DOMAIN sources :
        /\ GetDomainCount(d) = sources[d].max_pages
        /\ StartCount(d) < GetDomainCount(d)
        /\ HasPendingUrls(d)

\* C3: the number of active workers, and of running worker tasks, is at most
\* max_concurrent_crawls.
C3_ConcurrencyBudget ==
    /\ Cardinality(active_workers) <= MaxConcurrentCrawls
    /\ Cardinality(RunningTasks) <= MaxConcurrentCrawls

\* all slots are taken while another domain is eligible and waits
C3_Witness ==
    /\ Cardinality(active_workers) = MaxConcurrentCrawls
    /\ Cardinality(RunningTasks) = MaxConcurrentCrawls
    /\ \E d \in DOMAIN sources :
          /\ d \notin active_workers /\ d \notin finished_domains
          /\ HasPendingUrls(d) /\ GetDomainCount(d) < sources[d].max_pages

\* C6: restoring the checkpoint written from a crawl state gives the visited
\* set, the frontiers lane by lane, the counters and the statistics of that
\* state; so for every reachable state, and for the final checkpoint.
C6_CheckpointRoundTrip ==
    /\ LoadCheckpoint(Some(SaveCheckpoint(State))) = Some(State)
    /\ sched = "saved" => LoadCheckpoint(checkpoint_file) = Some(State)

\* the final checkpoint was written from a state with visited URLs, counted
\* pages and a frontier holding URLs in two lanes
C6_Witness ==
    /\ sched = "saved"
    /\ visited # {}
    /\ \E d \in DOMAIN queues :
          /\ queues[d].medium_priority # <<>> /\ queues[d].low_priority # <<>>
          /\ GetDomainCount(d) > StartCount(d)

\* C10: a domain in finished_domains stays there, has no worker task and is
\* not made active again.
C10_TerminalStaysTerminal ==
    [][\A d \in Domains :
          d \in finished_domains =>
              /\ d \in finished_domains'
              /\ d \notin active_workers'
              /\ worker'[d].pc = "idle"]_vars

\* a finished domain that still has queued URLs and budget left (it ended at
\* the failure cap), while the scheduler is still running
C10_Witness ==
    /\ sched = "loop"
    /\ \E d \in finished_domains :
          /\ HasPendingUrls(d)
          /\ GetDomainCount(d) < sources[d].max_pages
          /\ d \notin active_workers

\* the scheduler found all work complete and the final checkpoint is written
RunCompleted == sched = "saved" /\ no_work_cycles >= max_no_work_cycles

\* the sum of the domain counters
RECURSIVE SumCounts(_, _)
SumCounts(dc, ds) ==
    IF ds = {} THEN 0 ELSE LET d == Min(ds) IN dc[d] + SumCounts(dc, ds \ {d})

\* C11: a domain with one seed and a budget of two pages, whose first page is
\* accepted and links to three same-site pages, ends the run with two accepted
\* pages, finished, and with the two links not crawled in the frontier of the
\* final checkpoint.
C11_BudgetReachedFromLinks ==
    /\ run.srcs = LinkSources
    /\ RunCompleted
    /\ statistics["pages_accepted"] = statistics["fetch_crawl4ai"]
    => /\ GetDomainCount(3) = sources[3].max_pages
       /\ 3 \in finished_domains
       /\ Len(checkpoint_file[1].queues[3]) =
              Cardinality(Links(6)) - (sources[3].max_pages - 1)

\* C12: when a worker has fetched a page successfully, accepted or rejected,
\* and has not yet popped again, every link of the page is in the frontier of
\* its domain.
C12_LinksEnqueuedBeforeNextPop ==
    \A d \in Domains :
        worker[d].pc = "delay" /\ worker[d].last \in {"accepted", "rejected"}
            => Links(worker[d].url) \subseteq Queued(queues[d])

\* C13: a domain whose worker caught an exception of its loop is in
\* finished_domains once the worker has returned, and is not made active again.
C13_FailedDomainIsTerminal ==
    \A d \in errored : d \in finished_domains /\ d \notin active_workers

\* C14: no worker returns from process_domain with accepted pages in its
\* buffer that it has not appended to the corpus log.
C14_BufferFlushedOnExit == lostAtReturn = {}

\* C15: no worker task is ended at an await with accepted pages in its buffer
\* that it has not appended to the corpus log.
C15_NoWorkerCancelledWithBuffer == lostAtCancel = {}

\* C17: in a run given --max-pages M, neither the statistic pages_accepted
\* nor the sum of the domain counters exceeds M.
C17_TotalWithinCliMaxPages ==
    IF run.max_pages = None THEN TRUE
    ELSE /\ statistics["pages_accepted"] <= run.max_pages[1]
         /\ SumCounts(domain_counts, DOMAIN domain_counts) <= run.max_pages[1]
\* C22: the consecutive-failure counter of a worker counts the fetches that
\* failed since the latest accepted page: a failed fetch adds one, an
\* accepted page resets it, a rejected page leaves it as it is (so that the
\* failure cap is reached by fetch failures only).
C22_FailureCounterCountsFetchFailures ==
    \A d \in Domains :
        worker[d].consecutive_failures = worker[d].failed_fetches

\* C23: a domain recorded as finished with its count below its budget (as
\* exhausted) has an empty frontier.
C23_ExhaustedMeansEmptyFrontier ==
    \A d \in finished_domains \cap DOMAIN sources :
        GetDomainCount(d) < sources[d].max_pages => ~HasPendingUrls(d)

\* the outcome counters of the statistics
OutcomeStats == StatNames \ {"fetch_crawl4ai"}

RECURSIVE SumStats(_, _)
SumStats(st, names) ==
    IF names = {} THEN 0
    ELSE LET n == CHOOSE x \in names : TRUE
         IN  st[n] + SumStats(st, names \ {n})

\* C24: whenever no fetch is in flight, the fetch attempts counted are as
\* many as the outcomes counted: accepted, failed and the rejections.  Stated
\* for the runs no stop has cut short, where every fetch dispatched returned.
C24_EveryFetchCountedOnce ==
    (~stop_event /\ \A d \in Domains : worker[d].pc # "fetching") =>
        statistics["fetch_crawl4ai"] = SumStats(statistics, OutcomeStats)

\* eligible for a worker: not finished, not active, below budget, with a URL
Eligible(d) ==
    /\ d \in DOMAIN sources
    /\ d \notin finished_domains /\ d \notin active_workers
    /\ GetDomainCount(d) < sources[d].max_pages
    /\ HasPendingUrls(d)

\* w comes strictly before s in the order (priority ascending, queue size
\* descending)
RanksBefore(w, s) ==
    \/ sources[w].priority < sources[s].priority
    \/ /\ sources[w].priority = sources[s].priority
       /\ GetQueueSize(w) > GetQueueSize(s)

\* C25: the domains a scheduler tick makes active were eligible, they are
\* as many as the free slots allow, and no eligible domain left waiting
\* ranks strictly before one of them.
C25_StartsFirstEligibleInOrder ==
    [][\A s \in active_workers' \ active_workers :
          /\ Eligible(s)
          /\ Cardinality(active_workers') <= MaxConcurrentCrawls
          /\ \A w \in Domains :
                (Eligible(w) /\ w \notin active_workers') =>
                    /\ ~RanksBefore(w, s)
                    /\ Cardinality(active_workers') = MaxConcurrentCrawls]_vars

\* a tick has just started two domains and left an eligible one waiting that
\* has the priority of one of them and a shorter frontier
C25_Witness ==
    /\ Cardinality(active_workers) = MaxConcurrentCrawls
    /\ \A s \in active_workers : worker[s].pc = "created"
    /\ \E s \in active_workers, w \in Domains :
          /\ Eligible(w)
          /\ sources[w].priority = sources[s].priority
          /\ GetQueueSize(w) < GetQueueSize(s)

\* C26: when the scheduler itself has set the stop signal (it has left its
\* loop for the final gather and no interrupt came), no worker is active or
\* running, no domain that is not finished has a queued URL, and the latest
\* max_no_work_cycles ticks, the one that set the signal among them, each
\* found no worker active and no domain to start.
C26_StopsOnlyAfterIdleTicks ==
    (sched = "gather" /\ stop_event) =>
        /\ active_workers = {}
        /\ RunningTasks = {}
        /\ \A d \in DOMAIN sources \ finished_domains : ~HasPendingUrls(d)
        /\ \A d \in Domains : ~Eligible(d)
        /\ idleTicks >= max_no_work_cycles

\* the scheduler has stopped on its own after a crawl that fetched pages
C26_Witness ==
    /\ sched = "gather"
    /\ stop_event
    /\ idleTicks = max_no_work_cycles
    /\ \E d \in DOMAIN sources : GetDomainCount(d) > 0

\* fetches of domain d that have been dispatched and have not returned
InFlight(d) == IF worker[d].pc = "fetching" THEN polite.tasks[d] ELSE 0

\* C28: a domain never has more than one worker task, so never more than one
\* fetch in flight, and no fetch of a domain is dispatched after an earlier
\* fetch of that domain unless a delay of its worker lay between the two.
C28_OneWorkerAndDelayBetweenFetches ==
    /\ \A d \in Domains :
          /\ polite.tasks[d] <= 1
          /\ InFlight(d) <= 1
          /\ polite.tasks[d] = (IF d \in RunningTasks THEN 1 ELSE 0)
    /\ polite.hasty = {}

\* a worker has its second fetch in flight, the delay after the first done,
\* while another domain is being crawled too
C28_Witness ==
    \E d \in Domains, e \in Domains :
        /\ e # d
        /\ worker[d].pc = "fetching"
        /\ worker[d].pages_crawled >= 1
        /\ d \notin polite.undelayed
        /\ polite.tasks[e] = 1

\* the disallowed URLs a step marks visited
SkippedInStep == (visited' \ visited) \cap RobotsDisallowed

\* C29: a URL for which _should_crawl_url answers no is never handed to the
\* fetcher; the step that pops it marks it visited and goes on in the loop
\* with no outcome counter, domain count, domain statistic, accepted-page
\* counter or failure counter changed, the fetch counter growing only by the
\* fetch of the next allowed URL, if the step ends in one.
C29_DisallowedUrlSkippedUncounted ==
    [][/\ \A u \in RobotsDisallowed : fetchLog[u] = 0 /\ fetchLog'[u] = 0
       /\ SkippedInStep # {} =>
             /\ \A n \in OutcomeStats : statistics'[n] = statistics[n]
             /\ statistics'["fetch_crawl4ai"] - statistics["fetch_crawl4ai"]
                    = Cardinality({u \in Urls : fetchLog'[u] > fetchLog[u]})
             /\ domain_counts' = domain_counts
             /\ domain_stats' = domain_stats
             /\ \A d \in Domains :
                   worker'[d].pc # "idle" =>
                       /\ worker'[d].consecutive_failures
                              = worker[d].consecutive_failures
                       /\ worker'[d].pages_crawled = worker[d].pages_crawled]_vars

\* a disallowed URL was popped and skipped, and the worker that skipped it
\* has gone on to fetch another URL (no run starts with the URL visited)
C29_Witness ==
    \E u \in RobotsDisallowed, d \in Domains :
        /\ u \in visited
        /\ fetchLog[u] = 0
        /\ worker[d].pc = "fetching"
        /\ worker[d].url \notin RobotsDisallowed
        /\ d \in DOMAIN queues /\ u \notin queues[d].all_urls

\* C30: in a step taken when the stop signal is set, no URL leaves a
\* frontier, no fetch is dispatched and no worker is started; the signal
\* stays set.
C30_NothingStartsAfterStop ==
    [][stop_event =>
          /\ \A d \in DOMAIN queues :
                /\ d \in DOMAIN queues'
                /\ queues[d].all_urls \subseteq queues'[d].all_urls
                /\ QLen(queues'[d]) >= QLen(queues[d])
          /\ fetchLog' = fetchLog
          /\ startCounts' = startCounts
          /\ active_workers' \subseteq active_workers
          /\ stop_event']_vars

\* the signal was set while a fetch had been made and a domain still had
\* URLs to crawl, and the run went on to its final checkpoint
C30_Witness ==
    /\ stop_event
    /\ sched = "saved"
    /\ \E u \in Urls : fetchLog[u] > 0
    /\ \E d \in DOMAIN sources \ finished_domains :
          HasPendingUrls(d) /\ GetDomainCount(d) < sources[d].max_pages

\* C27: when every sleep, delay and fetch returns, the stop signal is
\* eventually set and start() has returned, whichever way the workers end.
C27_EventuallyStops == <>(stop_event /\ sched \in {"stopped", "saved"})

\* the scheduler stopped on its own and start() returned after a worker had
\* ended by an exception
C27_Witness ==
    /\ stop_event
    /\ sched = "stopped"
    /\ idleTicks >= max_no_work_cycles
    /\ errored # {}

\* C31: once the final checkpoint is written, whichever way start() ended,
\* no worker task is left, and the file holds the visited set, the
\* frontiers, the counts and the statistics of the crawl state as it is from
\* then on.
C31_FinalCheckpointAfterWorkers ==
    sched = "saved" =>
        /\ RunningTasks = {}
        /\ \A d \in Domains : polite.tasks[d] = 0
        /\ checkpoint_file = Some(SaveCheckpoint(State))

\* the final checkpoint of a run that was interrupted after a fetch had been
\* dispatched
C31_Witness ==
    /\ sched = "saved"
    /\ idleTicks < max_no_work_cycles
    /\ statistics["fetch_crawl4ai"] > 0
    /\ checkpoint_file # None
    /\ checkpoint_file[1].statistics = statistics

\* C32: every fingerprint and every simhash of the dedup store is that of a
\* page ContentProcessor.process accepted.
C32_StoreHoldsAcceptedPagesOnly ==
    /\ \A f \in fingerprints : \E p \in corpus_pages : PageFingerprint(p) = f
    /\ \A sh \in simhashes : \E p \in corpus_pages : PageSimhash(p) = sh

\* the slice of the crawl state that belongs to domain e: its frontier, its
\* accepted counter, its latency statistics
Slice(e) ==
    [queue |-> IF e \in DOMAIN queues THEN Some(queues[e]) ELSE None,
     count |-> GetDomainCount(e),
     stats |-> IF e \in DOMAIN domain_stats THEN Some(domain_stats[e]) ELSE None]

\* C33: the slice of a domain changes only in a step of that domain's own
\* worker, a step in which no other worker moves; what a worker step changes
\* of the crawl state besides is the visited set and the statistics.
C33_WorkerChangesOwnSliceOnly ==
    [][\A e \in Domains :
          Slice(e)' # Slice(e) =>
              /\ worker[e].pc # "idle"
              /\ worker'[e] # worker[e]
              /\ \A d \in Domains \ {e} :
                    worker'[d] = worker[d] /\ Slice(d)' = Slice(d)]_vars

\* two workers run side by side; one has had a page accepted in this run,
\* the other has popped a URL and has had none accepted
C33_Witness ==
    \E d \in Domains :
        \E e \in Domains :
            /\ d # e
            /\ worker[d].pc # "idle" /\ worker[d].pages_crawled >= 1
            /\ worker[e].pc = "fetching" /\ worker[e].pages_crawled = 0

\* C34: when the scheduler has set the stop signal by itself, every domain
\* of the sources is in finished_domains and has a frontier in the crawl
\* state (its seeds were queued).
C34_StoppedMeansAllDomainsFinished ==
    (sched = "gather" /\ stop_event) =>
        \A d \in DOMAIN sources :
            d \in finished_domains /\ d \in DOMAIN queues

\* the monitor is alive and the checkpoint file is a snapshot of the crawl
\* state as it is now
SnapshotNow ==
    /\ sched \in {"loop", "gather"}
    /\ checkpoint_file = Some(SaveCheckpoint(State))

\* the CrawlState a later run of the same sources resumes from the file
ResumedState == InitialState(run.srcs, LoadCheckpoint(checkpoint_file))

\* C35: in a snapshot of the monitor, a URL whose fetch is in flight is not
\* in the visited set, and the run that resumes from the snapshot has it in
\* the frontier of its domain.
C35_SnapshotKeepsUrlsInFlight ==
    SnapshotNow =>
        \A d \in Domains :
            worker[d].pc = "fetching" =>
                /\ worker[d].url \notin ResumedState.visited
                /\ d \in DOMAIN ResumedState.queues
                /\ worker[d].url \in ResumedState.queues[d].all_urls

\* page_data['domain'] of the record of the page of u
PageDomain(u) ==
    CASE u \in {1, 2, 3, 5} -> 1
      [] u = 4 -> 2
      [] OTHER -> 3

\* the records of domain d this run has appended to the corpus log
RecordsOf(d) ==
    Cardinality({i \in 1..Len(crawled_file) : PageDomain(crawled_file[i]) = d})

\* the accepted counter of d in the counts dc
CountIn(dc, d) == IF d \in DOMAIN dc THEN dc[d] ELSE 0

\* C36: in a snapshot of the monitor, what the accepted counter of a domain
\* has grown by in this run is at most the number of records of the domain
\* the run has appended to the corpus log.
C36_SnapshotCountsOnlyFlushedPages ==
    SnapshotNow =>
        \A d \in Domains :
            CountIn(checkpoint_file[1].domain_counts, d) - CountIn(startCounts, d)
                <= RecordsOf(d)

\* C37: active_workers holds exactly the domains that have a worker task
\* which has not ended.
C37_ActiveWorkersAreLiveTasks ==
    active_workers = {d \in Domains : polite.tasks[d] > 0}

\* C37 as amended: every domain with a worker task that has not ended is in
\* active_workers, and until the scheduler has stopped active_workers holds
\* no other domain; a task that returned or raised has discarded its domain.
\* (A task cancelled before its first step leaves its domain behind.)
C37_ActiveWorkersAreLiveTasksWhileScheduling ==
    /\ {d \in Domains : polite.tasks[d] > 0} \subseteq active_workers
    /\ sched \in {"loop", "gather"} =>
           active_workers = {d \in Domains : polite.tasks[d] > 0}

\* the task of d has ended after accepting a page and the task of e runs
C37_Witness ==
    /\ sched = "loop"
    /\ \E d \in Domains :
          /\ d \in finished_domains
          /\ d \notin active_workers
          /\ CountIn(domain_counts, d) > CountIn(startCounts, d)
          /\ \E e \in Domains : e # d /\ e \in active_workers

\* C38: in a run started from a fresh state, whenever no worker is between
\* two awaits the accepted counters of the domains add up to the statistic
\* pages_accepted, in the crawl state and in every checkpoint written.
C38_AcceptedCountersSumToStatistic ==
    run.file = None =>
        /\ SumCounts(domain_counts, DOMAIN domain_counts)
              = statistics["pages_accepted"]
        /\ checkpoint_file # None =>
              SumCounts(checkpoint_file[1].domain_counts,
                        DOMAIN checkpoint_file[1].domain_counts)
                  = checkpoint_file[1].statistics["pages_accepted"]

\* a periodic snapshot of a fresh run that has accepted two pages
C38_Witness ==
    /\ run.file = None
    /\ SnapshotNow
    /\ statistics["pages_accepted"] >= 2

(***************************************************************************)
(* Properties of the frontier (SpecQ)                                      *)
(***************************************************************************)
Lane(q, l) ==
    CASE l = "high" -> q.high_priority
      [] l = "medium" -> q.medium_priority
      [] OTHER -> q.low_priority

Lanes == {"high", "medium", "low"}

\* C4: pop returns the earliest-added URL still queued in the highest lane
\* that holds a URL; so in a run of pops with no add between them the lanes
\* come out high, then medium, then low.
C4_PopOrder ==
    lastOp.op = "pop" /\ lastOp.expected # 0 =>
        /\ lastOp.ret
        /\ lastOp.url = lastOp.expected
        /\ lastOp.prev # 0 =>
              LaneRank(Classify(lastOp.prev)) <= LaneRank(Classify(lastOp.url))

\* pop returned URL 4 of the high lane, added before URL 1 of that lane, while
\* the medium and the low lane held URLs
C4_Witness ==
    /\ lastOp.op = "pop" /\ lastOp.ret /\ lastOp.url = 4
    /\ lastOp.before.high_priority = <<4, 1>>
    /\ lastOp.before.medium_priority # <<>>
    /\ lastOp.before.low_priority # <<>>
    /\ Head(addOrder) \in {2, 3, 5, 6}

\* C5: add of a queued URL returns false and changes no lane; add of any other
\* URL returns true and appends it to exactly one lane; pop on a frontier that
\* holds no URL fails and changes nothing; add of a URL that was just popped
\* succeeds.
C5_AddPopContract ==
    /\ lastOp.op = "add" /\ lastOp.url \in Queued(lastOp.before) =>
          ~lastOp.ret /\ fq = lastOp.before
    /\ lastOp.op = "add" /\ lastOp.url \notin Queued(lastOp.before) =>
          /\ lastOp.ret
          /\ \E l \in Lanes :
                /\ Lane(fq, l) = Append(Lane(lastOp.before, l), lastOp.url)
                /\ \A m \in Lanes \ {l} : Lane(fq, m) = Lane(lastOp.before, m)
    /\ lastOp.op = "pop" /\ Queued(lastOp.before) = {} =>
          ~lastOp.ret /\ fq = lastOp.before
    /\ lastOp.op = "add" /\ lastOp.prev = lastOp.url => lastOp.ret

\* a URL was popped from a frontier holding other URLs and added again at once
C5_Witness ==
    /\ lastOp.op = "add" /\ lastOp.ret
    /\ lastOp.prev = lastOp.url
    /\ Queued(lastOp.before) # {}

\* C39: after any sequence of add, pop and from_list the membership set of a
\* frontier is the set of the URLs in its three lanes, no URL is held twice,
\* in one lane or in two, and the size reported is that of the membership set.
C39_LanesAndMembershipAgree ==
    /\ fq.all_urls = Queued(fq)
    /\ \A l \in Lanes : \A i, j \in 1..Len(Lane(fq, l)) :
          i # j => Lane(fq, l)[i] # Lane(fq, l)[j]
    /\ \A l \in Lanes, m \in Lanes :
          l # m => Range(Lane(fq, l)) \cap Range(Lane(fq, m)) = {}
    /\ QLen(fq) = Cardinality(fq.all_urls)

\* from_list was given three URLs of two lanes, one of them twice, and built
\* a frontier of two URLs
C39_Witness ==
    /\ lastOp.op = "from_list"
    /\ Len(lastOp.urls) = 3
    /\ QLen(fq) = 2
    /\ Classify(lastOp.urls[1]) # Classify(lastOp.urls[3])
(***************************************************************************)
(* Properties of the dedup store (SpecD)                                   *)
(***************************************************************************)
Titles == {PageTitle(p) : p \in Pages}

\* C7: of the calls of check_duplicate with pages of one fingerprint, made by
\* any instances in any order, at most one returns False and inserts.
C7_OnePassPerFingerprint ==
    \A p \in Pages : FingerprintPasses(PageFingerprint(p)) <= 1

\* instance 1 has stored a page; instance 2 then checked another page with the
\* same fingerprint and a distant simhash, below the title threshold, and was
\* answered True
C7_Witness ==
    /\ lastCheck.inst = 2 /\ lastCheck.ret
    /\ lastCheck.known /\ ~lastCheck.near /\ ~lastCheck.inserted
    /\ fingerprints = {PageFingerprint(1)}
    /\ FingerprintPasses(PageFingerprint(1)) = 1
    /\ seen_titles[1][1][TitleHash("A")] = 1
    /\ seen_titles[2][1][TitleHash("A")] < duplicate_title_threshold

\* C8: the pages of one title that passed check_duplicate, counted over all
\* instances, never number more than duplicate_title_threshold.
C8_TitleThresholdOverAllWorkers ==
    \A t \in Titles : TitlePasses(t) <= duplicate_title_threshold

\* C9: a page whose simhash differs in at most simhash_hamming_distance bits
\* from a simhash in the store is answered True, and the call inserts nothing.
C9_NearSimhashIsDuplicate ==
    lastCheck.near => lastCheck.ret /\ ~lastCheck.inserted

\* the page checked has a fingerprint the store does not hold and a simhash
\* near a stored one (only pages 1 and 8 are such a pair, 3 bits apart); the
\* title counters of its instance are below the threshold
C9_Witness ==
    /\ lastCheck.inst # 0
    /\ lastCheck.near /\ ~lastCheck.known
    /\ lastCheck.ret /\ ~lastCheck.inserted
    /\ \A t \in Titles :
          seen_titles[lastCheck.inst][1][TitleHash(t)] < duplicate_title_threshold
(***************************************************************************)
(* Properties of save_checkpoint (SpecS)                                   *)
(***************************************************************************)
\* a file that holds one whole JSON object of a checkpoint
CompleteFile(f) ==
    /\ f # None
    /\ Len(f[1]) = Len(CheckpointKeys)
    /\ \A i \in 1..Len(CheckpointKeys) : f[1][i][1] = CheckpointKeys[i]

\* C16: from the call of save_checkpoint on, whatever step it is at and
\* however it ends, the checkpoint file is the file as it was before the call
\* or the whole new snapshot, and a checkpoint file that exists is a whole
\* snapshot; after a save that failed the file is as before and there is no
\* temporary file; after a save that succeeded the file is the new snapshot.
C16_CheckpointNeverPartial ==
    /\ files.ckpt # None => CompleteFile(files.ckpt)
    /\ saving.pc # "idle" =>
          files.ckpt = saving.before \/ files.ckpt = Some(saving.chunks)
    /\ saving.pc = "failed" => files.ckpt = saving.before /\ files.tmp = None
    /\ saving.pc = "done" => files.ckpt = Some(saving.chunks)

\* the process was killed while json.dump had written a part of a snapshot
\* that differs from the checkpoint of the earlier run
C16_Witness ==
    /\ saving.pc = "crashed"
    /\ files.tmp # None
    /\ Len(files.tmp[1]) \in 1..(Len(saving.chunks) - 1)
    /\ saving.before # None
    /\ saving.before # Some(saving.chunks)
    /\ files.ckpt = saving.before
(***************************************************************************)
(* Properties of the construction of the orchestrator (SpecO)              *)
(***************************************************************************)
\* the positions of the list that name domain d
Naming(d) == {i \in 1..Len(srcList) : srcList[i].domain = d}

NamedDomains == {srcList[i].domain : i \in 1..Len(srcList)}

\* C18: the orchestrator has one source per domain named; its budget is the
\* sum of the budgets of the sources naming the domain, its priority and its
\* quality threshold are their minima; constructed without a checkpoint, it
\* has every seed URL queued in the frontier of its domain.
C18_SourcesMerged ==
    built # None =>
        /\ DOMAIN built[1].sources = NamedDomains
        /\ \A d \in NamedDomains :
              /\ built[1].sources[d].max_pages =
                    SeqSum([i \in 1..Len(srcList) |->
                              IF i \in Naming(d) THEN srcList[i].max_pages ELSE 0])
              /\ built[1].sources[d].priority =
                    Min({srcList[i].priority : i \in Naming(d)})
              /\ built[1].sources[d].quality_threshold =
                    Min({srcList[i].quality_threshold : i \in Naming(d)})
        /\ given = None =>
              /\ DOMAIN built[1].state.queues = NamedDomains
              /\ \A i \in 1..Len(srcList) :
                    srcList[i].url \in Queued(built[1].state.queues[srcList[i].domain])

\* a fresh orchestrator built from three sources that name a.org with three
\* seeds; neither the least priority nor the least threshold is the first's
C18_Witness ==
    /\ built # None /\ given = None
    /\ Len(srcList) = MaxSources
    /\ NamedDomains = {1}
    /\ Cardinality({srcList[i].url : i \in 1..Len(srcList)}) = 3
    /\ built[1].sources[1].priority < srcList[1].priority
    /\ built[1].sources[1].quality_threshold < srcList[1].quality_threshold
    /\ built[1].sources[1].max_pages > srcList[1].max_pages
(***************************************************************************)
(* Properties of the robots cache (SpecR)                                  *)
(***************************************************************************)
\* C19: when the parser of the domain was restored from a cache entry that
\* a fetched and parsed robots.txt wrote, can_fetch answers for every URL as
\* the parser made by that parse answers.
C19_RestoredPolicyAnswersAsFresh ==
    (origin = "cache" /\ freshPolicy # None) =>
        \A u \in RobotsUrls :
            HandlerCanFetch(parsers, u) = HandlerCanFetch(freshPolicy, u)
(***************************************************************************)
(* Properties of sitemap discovery (SpecM)                                 *)
(***************************************************************************)
\* C20: every list fetch_sitemaps returns has at most MAX_SITEMAP_URLS
\* URLs, and no URL twice.
C20_SitemapUrlsCappedAndDistinct ==
    smReturned # None =>
        LET urls == smReturned[1].urls
        IN  /\ Len(urls) <= MAX_SITEMAP_URLS
            /\ \A i, j \in 1..Len(urls) : urls[i] = urls[j] => i = j

\* four sitemaps declared, the first an index with pages of its own; the
\* sitemaps read list MAX_SITEMAP_URLS locations before the cap cuts them,
\* some twice, and the list read from the server is returned
C20_Witness ==
    /\ smReturned # None /\ smReturned[1].path = "fetched"
    /\ Len(smDeclared) > 3
    /\ smWeb[smDeclared[1]].sitemaps # <<>>
    /\ smWeb[smDeclared[1]].urls # <<>>
    /\ Len(AllPageUrls(smWeb, smDeclared)) = MAX_SITEMAP_URLS
    /\ Len(smReturned[1].urls) < MAX_SITEMAP_URLS
    /\ Len(smReturned[1].urls) > 0
\* C21: the expansion of nested sitemap indexes requests no document more
\* than 3 levels below the sitemaps fetch_sitemaps starts from.
C21_SitemapDepthAtMostThree ==
    (smReturned # None /\ smReturned[1].path = "fetched") =>
        DeepestLevel(smWeb, smDeclared) <= 3
====
